---- MODULE Spec2Model ----
(***************************************************************************)
(* Streaming reassembly and normalisation of rust-genai:                   *)
(*   - WebStream (src/src/webc/web_stream.rs): the byte framer, in its     *)
(*     Delimiter and PrettyJsonArray modes;                                *)
(*   - GeminiStreamer (src/src/adapter/adapters/gemini/streamer.rs): the   *)
(*     event normaliser.                                                   *)
(* Text is a sequence of one-character strings.                            *)
(***************************************************************************)
EXTENDS Integers, Sequences, FiniteSets, TLC

VARIABLES
    \* -- WebStream fields
    stream_mode,          \* "Delimiter" | "PrettyJsonArray"
    delimiter,            \* the separator of StreamMode::Delimiter
    reqwest_builder,      \* TRUE while Some(builder)
    response_future,      \* TRUE while Some(future)
    bytes_stream,         \* TRUE while Some(stream)
    partial_message,      \* Option<String>
    remaining_messages,   \* the queue (None and the empty queue behave alike)
    \* -- the byte source behind the WebStream
    body,                 \* the bytes the source will deliver
    pos,                  \* how many of them it has delivered
    deliveries,           \* how many chunks it has delivered
    src_state,            \* "open" | "ended" | "failed"
    \* -- the caller of WebStream::poll_next
    pc,                   \* "idle": between two calls; "loop": inside the loop of a call
    yielded,              \* the items returned as Poll::Ready(Some(..)), in order
    completed,            \* a call has returned Poll::Ready(None)
    \* -- history of the scans
    discovered,           \* the messages found by the scans, in discovery order
    last_scan,            \* the last call of a process_buff function
    eos_partial,          \* the partial taken at each end-of-stream poll
    \* -- GeminiStreamer fields
    done,                 \* the flag that stops the polling of the EventSource
    options,              \* StreamerOptions: the three capture flags
    captured_data,        \* StreamerCapturedData: usage, content, reasoning_content
    pending_main_content, \* Option<String>
    \* -- the EventSource behind the GeminiStreamer
    es_state,             \* "connecting" | "open" | "closed"
    es_sent,              \* how many messages it has delivered
    \* -- the caller of GeminiStreamer::poll_next
    g_pc,                 \* "idle" | "loop"
    g_yielded,            \* the items returned as Poll::Ready(Some(..)), in order
    g_completed,          \* a call has returned Poll::Ready(None)
    \* -- history of the streamer
    decoded,              \* the last unit decoded: the number of its message and the
                          \* index of the item yielded for it (0: none)
    es_last,              \* the last answer of the EventSource: "none", "Ready" (Open or
                          \* Message), "Pending", "StreamEnded", "None" or "Error"
    \* -- LlamaCppStreamer fields
    receiver,             \* the StreamChunks queued in the channel of the receiver
    buffer,               \* the text of the Deltas received
    finished,             \* the flag that stops the polling of the receiver
    \* -- the channel and the generation task behind the LlamaCppStreamer
    rx_dropped,           \* the consumer has dropped the stream, and the receiver with it
    tx_dropped,           \* the task has ended, and every sender with it
    task,                 \* "generating" | "sending" | "send_done" | "send_error" | "terminated"
    tokens,               \* how many tokens the task has generated
    wasted,               \* how many of them after the stream was dropped
    sent,                 \* the chunks that the task has put into the channel, in order
    capture_requested,    \* ChatOptions::capture_content of the request
    \* -- the caller of LlamaCppStreamer::poll_next
    l_yielded,            \* the items returned as Poll::Ready(Some(..)), in order
    l_completed,          \* a call has returned Poll::Ready(None)
    \* -- ModelManager and its callers
    MODEL_MANAGER,        \* the OnceCell: 0 when unset, the ModelManager otherwise
    init_permit,          \* the caller that runs the initializer of the cell, 0 if none
    backend_inits,        \* how many LlamaBackend::init() have succeeded
    models,               \* the cache: the LoadedModel of each path, 0 if none
    disk_loads,           \* the loads from disk of each path since the cache was cleared
    next_model,           \* the next LoadedModel to be created
    caller,               \* each caller: its position, its path, its model, its calls
    returned_managers,    \* the ModelManagers that instance() has returned
    returned_models,      \* the LoadedModels that load_model has returned for each
                          \* path since the cache was cleared
    \* -- two streams of one kind that are active at the same time
    pair_kind,            \* "WebStream" | "GeminiStreamer"
    streams,              \* the two WebStreams: the fields, the byte source, the caller's
                          \* view and the log of the calls of each
    streamers             \* the two GeminiStreamers, likewise

webVars == <<stream_mode, delimiter, reqwest_builder, response_future, bytes_stream,
             partial_message, remaining_messages, body, pos, deliveries, src_state,
             pc, yielded, completed, discovered, last_scan, eos_partial>>

gemVars == <<done, options, captured_data, pending_main_content, es_state, es_sent,
             g_pc, g_yielded, g_completed, decoded, es_last>>

llamaVars == <<receiver, buffer, finished, rx_dropped, tx_dropped, task, tokens, wasted,
               sent, capture_requested, l_yielded, l_completed>>

managerVars == <<MODEL_MANAGER, init_permit, backend_inits, models, disk_loads, next_model,
                 caller, returned_managers, returned_models>>

pairVars == <<pair_kind, streams, streamers>>

vars == <<webVars, gemVars, llamaVars, managerVars, pairVars>>

\* what the calls of a WebStream leave alone
nonWebVars == <<gemVars, llamaVars, managerVars, pairVars>>

\* what the calls of a GeminiStreamer leave alone
nonGemVars == <<webVars, llamaVars, managerVars, pairVars>>

\* what the LlamaCpp stream and its task leave alone
nonLlamaVars == <<webVars, gemVars, managerVars, pairVars>>

\* what the ModelManager and its callers leave alone
nonManagerVars == <<webVars, gemVars, llamaVars, pairVars>>

\* what a pair of streams leaves alone
nonPairVars == <<webVars, gemVars, llamaVars, managerVars>>

-----------------------------------------------------------------------------
(* Bounds *)

MaxDeliveries == 3
MaxDelimLen == 6
MaxElems == 2
MaxRawLen == 2
MaxMessages == 3
MaxTokens == 3
MaxChannel == 2
MaxCallers == 2
MaxCalls == 3
MaxPairMessages == 2

-----------------------------------------------------------------------------
(* Option<T> *)

None == [some |-> FALSE, v |-> <<>>]

Some(x) == [some |-> TRUE, v |-> x]

\* the text of an Option<String>, empty when it is None
PartialText(p) == IF p.some THEN p.v ELSE <<>>

-----------------------------------------------------------------------------
(* str helpers of the Rust standard library, as web_stream.rs uses them *)

WhiteSpace == {" ", "\n", "\t", "\r"}

DropFirst(s, n) == SubSeq(s, n + 1, Len(s))

StartsWith(s, c) == s # <<>> /\ Head(s) = c

IsPrefix(p, s) == Len(p) <= Len(s) /\ SubSeq(s, 1, Len(p)) = p

RECURSIVE TrimStart(_)
TrimStart(s) ==
    IF s # <<>> /\ Head(s) \in WhiteSpace THEN TrimStart(Tail(s)) ELSE s

RECURSIVE TrimEnd(_)
TrimEnd(s) ==
    IF s # <<>> /\ s[Len(s)] \in WhiteSpace THEN TrimEnd(SubSeq(s, 1, Len(s) - 1)) ELSE s

Trim(s) == TrimEnd(TrimStart(s))

RECURSIVE TrimStartMatches(_, _)
TrimStartMatches(s, c) ==
    IF StartsWith(s, c) THEN TrimStartMatches(Tail(s), c) ELSE s

StripPrefixOrSelf(s, c) == IF StartsWith(s, c) THEN Tail(s) ELSE s

\* str::split: the segments between the leftmost non-overlapping matches of d
RECURSIVE SplitFrom(_, _, _)
SplitFrom(s, d, acc) ==
    IF s = <<>> THEN <<acc>>
    ELSE IF IsPrefix(d, s) THEN <<acc>> \o SplitFrom(DropFirst(s, Len(d)), d, <<>>)
    ELSE SplitFrom(Tail(s), d, Append(acc, Head(s)))

Split(s, d) == SplitFrom(s, d, <<>>)

-----------------------------------------------------------------------------
(* serde_json::from_str::<Value>: does the text hold exactly one JSON value *)
(* (with optional white space around it)? The Parse operators return the   *)
(* index after what they consumed, 0 on a syntax error.                    *)

JsonWs == {" ", "\n", "\t", "\r"}

Digits == {"0", "1", "2", "3", "4", "5", "6", "7", "8", "9"}

Escapable == {"\"", "\\", "/", "b", "f", "n", "r", "t"}

HexDigits == Digits \cup {"a", "b", "c", "d", "e", "f", "A", "B", "C", "D", "E", "F"}

RECURSIVE SkipWs(_, _)
SkipWs(s, i) == IF i <= Len(s) /\ s[i] \in JsonWs THEN SkipWs(s, i + 1) ELSE i

RECURSIVE SkipDigits(_, _)
SkipDigits(s, i) == IF i <= Len(s) /\ s[i] \in Digits THEN SkipDigits(s, i + 1) ELSE i

\* i is the index after the opening quote
RECURSIVE ParseString(_, _)
ParseString(s, i) ==
    IF i > Len(s) THEN 0
    ELSE IF s[i] = "\"" THEN i + 1
    ELSE IF s[i] = "\\"
         THEN IF i + 1 <= Len(s) /\ s[i + 1] \in Escapable THEN ParseString(s, i + 2)
              ELSE IF i + 5 <= Len(s) /\ s[i + 1] = "u"
                      /\ \A k \in (i + 2)..(i + 5) : s[k] \in HexDigits
                   THEN ParseString(s, i + 6)
              ELSE 0
    ELSE IF s[i] \in {"\n", "\t", "\r"} THEN 0
    ELSE ParseString(s, i + 1)

ParseNumber(s, i) ==
    LET a == IF s[i] = "-" THEN i + 1 ELSE i
        b == IF a <= Len(s) /\ s[a] = "0" THEN a + 1 ELSE SkipDigits(s, a)
        c == IF b <= Len(s) /\ s[b] = "."
             THEN (IF SkipDigits(s, b + 1) > b + 1 THEN SkipDigits(s, b + 1) ELSE 0)
             ELSE b
        x == IF c <= Len(s) /\ s[c] \in {"e", "E"}
             THEN (IF c + 1 <= Len(s) /\ s[c + 1] \in {"+", "-"} THEN c + 2 ELSE c + 1)
             ELSE c
        d == IF x = c THEN c ELSE (IF SkipDigits(s, x) > x THEN SkipDigits(s, x) ELSE 0)
    IN  IF b = a \/ c = 0 THEN 0 ELSE d

ParseLiteral(s, i) ==
    IF IsPrefix(<<"t", "r", "u", "e">>, DropFirst(s, i - 1)) THEN i + 4
    ELSE IF IsPrefix(<<"n", "u", "l", "l">>, DropFirst(s, i - 1)) THEN i + 4
    ELSE IF IsPrefix(<<"f", "a", "l", "s", "e">>, DropFirst(s, i - 1)) THEN i + 5
    ELSE 0

RECURSIVE ParseValue(_, _), ParseMembers(_, _), ParseElements(_, _)
ParseValue(s, i) ==
    IF i > Len(s) THEN 0
    ELSE IF s[i] = "{"
         THEN LET j == SkipWs(s, i + 1)
              IN  IF j <= Len(s) /\ s[j] = "}" THEN j + 1 ELSE ParseMembers(s, j)
    ELSE IF s[i] = "["
         THEN LET j == SkipWs(s, i + 1)
              IN  IF j <= Len(s) /\ s[j] = "]" THEN j + 1 ELSE ParseElements(s, j)
    ELSE IF s[i] = "\"" THEN ParseString(s, i + 1)
    ELSE IF s[i] \in Digits \cup {"-"} THEN ParseNumber(s, i)
    ELSE ParseLiteral(s, i)

\* i is where a key must start
ParseMembers(s, i) ==
    IF i > Len(s) \/ s[i] # "\"" THEN 0
    ELSE LET k == ParseString(s, i + 1)
             c == SkipWs(s, k)
             v == ParseValue(s, SkipWs(s, c + 1))
             e == SkipWs(s, v)
         IN  IF k = 0 \/ c > Len(s) THEN 0
             ELSE IF s[c] # ":" \/ v = 0 \/ e > Len(s) THEN 0
             ELSE IF s[e] = "}" THEN e + 1
             ELSE IF s[e] = "," THEN ParseMembers(s, SkipWs(s, e + 1))
             ELSE 0

\* i is where an element must start
ParseElements(s, i) ==
    LET v == ParseValue(s, i)
        e == SkipWs(s, v)
    IN  IF v = 0 \/ e > Len(s) THEN 0
        ELSE IF s[e] = "]" THEN e + 1
        ELSE IF s[e] = "," THEN ParseElements(s, SkipWs(s, e + 1))
        ELSE 0

FromStrIsOk(s) ==
    LET v == ParseValue(s, SkipWs(s, 1))
    IN  v # 0 /\ SkipWs(s, v) = Len(s) + 1

-----------------------------------------------------------------------------
(* BuffResponse and the two process_buff functions. `partial` is the value  *)
(* the function leaves in its `&mut partial_message` argument.              *)

BuffResponse(messages, candidate, partial) ==
    [first_message    |-> IF messages = <<>> THEN None ELSE Some(Head(messages)),
     next_messages    |-> IF Len(messages) > 1 THEN Tail(messages) ELSE <<>>,
     candidate_message |-> candidate,
     partial          |-> partial]

\* -- process_buff_string_delimited

\* one iteration of `for part in parts`
DelimitedPart(st, part) ==
    IF st.candidate.some
    THEN IF st.candidate.v = <<>>
         THEN [st EXCEPT !.candidate = None]
         ELSE [st EXCEPT !.candidate = None, !.messages = Append(@, st.candidate.v)]
    ELSE [st EXCEPT !.candidate = Some(IF st.partial.some THEN st.partial.v \o part ELSE part),
                    !.partial = None]

RECURSIVE DelimitedParts(_, _)
DelimitedParts(st, parts) ==
    IF parts = <<>> THEN st ELSE DelimitedParts(DelimitedPart(st, Head(parts)), Tail(parts))

process_buff_string_delimited(buff_string, partial, delim) ==
    LET st == DelimitedParts([candidate |-> None, messages |-> <<>>, partial |-> partial],
                             Split(buff_string, delim))
    IN  BuffResponse(st.messages, st.candidate, st.partial)

\* -- new_with_pretty_json_array

ArrayStart == <<"[">>

ArrayEnd == <<"]">>

\* a scan that takes the first closing brace for the end of the object
RECURSIVE FirstClosingBrace(_, _)
FirstClosingBrace(remaining, from) ==
    IF from > Len(remaining) THEN 0
    ELSE IF remaining[from] = "}" THEN from
    ELSE FirstClosingBrace(remaining, from + 1)

\* a scan that tries the first closing brace only
FirstBraceIfComplete(remaining, from) ==
    IF FirstClosingBrace(remaining, from) # 0
         /\ FromStrIsOk(SubSeq(remaining, 1, FirstClosingBrace(remaining, from)))
    THEN FirstClosingBrace(remaining, from)
    ELSE 0

\* `for (i, _) in remaining_content.match_indices('}')`: the first i from `from` on
\* whose prefix parses, 0 when there is none
RECURSIVE FirstCompleteObject(_, _)
FirstCompleteObject(remaining, from) ==
    IF from > Len(remaining) THEN 0
    ELSE IF remaining[from] = "}" /\ FromStrIsOk(SubSeq(remaining, 1, from)) THEN from
    ELSE FirstCompleteObject(remaining, from + 1)

\* what follows a complete object: skip white space and one comma, emit "]"
AfterObject(rest) ==
    LET r == Trim(StripPrefixOrSelf(Trim(rest), ","))
    IN  IF StartsWith(r, "]")
        THEN [messages |-> <<ArrayEnd>>, remaining |-> Tail(r)]
        ELSE [messages |-> <<>>, remaining |-> r]

\* the `while` loop over the objects
RECURSIVE ExtractObjects(_, _)
ExtractObjects(remaining, messages) ==
    IF remaining # <<>> /\ Head(remaining) = "{"
    THEN LET i == FirstCompleteObject(remaining, 1)
             a == AfterObject(DropFirst(remaining, i))
         IN  IF i = 0
             THEN [messages |-> messages, partial |-> Some(remaining)]
             ELSE ExtractObjects(a.remaining,
                                 Append(messages, SubSeq(remaining, 1, i)) \o a.messages)
    ELSE [messages |-> messages, partial |-> None]

\* the text the function scans: the partial, then the delivery, trimmed
CombinedStr(buff_string, partial) ==
    Trim(IF partial.some THEN partial.v \o buff_string ELSE buff_string)

new_with_pretty_json_array(buff_string, partial) ==
    LET buff_str == CombinedStr(buff_string, partial)
        has_start == StartsWith(buff_str, "[")
        rest_str == IF has_start THEN Trim(Tail(buff_str)) ELSE buff_str
        no_comma == Trim(TrimStartMatches(rest_str, ","))
        has_end == StartsWith(no_comma, "]")
        r == ExtractObjects(IF has_end THEN Tail(no_comma) ELSE no_comma,
                            (IF has_start THEN <<ArrayStart>> ELSE <<>>)
                              \o (IF has_end THEN <<ArrayEnd>> ELSE <<>>))
    IN  BuffResponse(r.messages, None, r.partial)

ProcessBuff(mode, buff_string, partial, delim) ==
    IF mode = "Delimiter"
    THEN process_buff_string_delimited(buff_string, partial, delim)
    ELSE new_with_pretty_json_array(buff_string, partial)

\* an end-of-stream branch that validates the partial as JSON in every mode
EmitFinalPartialIfJson(mode, partial) ==
    /\ partial.some
    /\ partial.v # <<>>
    /\ Trim(partial.v) = ArrayEnd \/ FromStrIsOk(partial.v)

\* an end-of-stream branch that emits the partial as it is in every mode
EmitFinalPartialAsIs(mode, partial) == partial.some /\ partial.v # <<>>

\* Poll::Ready(None) of the byte stream: is the partial taken there emitted?
EmitFinalPartial(mode, partial) ==
    /\ partial.some
    /\ partial.v # <<>>
    /\ IF mode = "PrettyJsonArray"
       THEN Trim(partial.v) = ArrayEnd \/ FromStrIsOk(partial.v)
       ELSE TRUE

-----------------------------------------------------------------------------
(* The byte streams the source delivers *)

SeqsUpTo(S, n) == UNION {[1..k -> S] : k \in 0..n}

\* -- Delimiter mode
DelimAlphabet == {"a", "\n"}

Delimiters == {<<"\n">>, <<"\n", "\n">>}

\* "ab\ncd\n", the stream of the documented example
ExampleDelimBody == <<"a", "b", "\n", "c", "d", "\n">>

DelimBodies == SeqsUpTo(DelimAlphabet, MaxDelimLen) \cup {ExampleDelimBody}

\* -- PrettyJsonArray mode
\* {"a":1}
ObjPlain == <<"{", "\"", "a", "\"", ":", "1", "}">>

\* {" }":1}: white space and a closing brace inside a string
ObjTricky == <<"{", "\"", " ", "}", "\"", ":", "1", "}">>

\* {"a":{}}
ObjNested == <<"{", "\"", "a", "\"", ":", "{", "}", "}">>

Elements == {ObjPlain, ObjTricky, ObjNested}

RECURSIVE JoinWith(_, _)
JoinWith(es, sep) ==
    IF es = <<>> THEN <<>>
    ELSE IF Len(es) = 1 THEN Head(es)
    ELSE Head(es) \o sep \o JoinWith(Tail(es), sep)

\* a top-level array of objects, compact ([e,e]) or pretty ([ e , e ])
ArrayText(es, pretty) ==
    IF pretty
    THEN <<"[", " ">> \o JoinWith(es, <<" ", ",", " ">>) \o (IF es = <<>> THEN <<>> ELSE <<" ">>) \o <<"]">>
    ELSE <<"[">> \o JoinWith(es, <<",">>) \o <<"]">>

WellFormedBodies == {ArrayText(es, pretty) : es \in SeqsUpTo(Elements, MaxElems), pretty \in BOOLEAN}

\* a transport that closes early: the proper prefixes of one array
TruncatedOf == ArrayText(<<ObjPlain, ObjTricky>>, FALSE)

TruncatedBodies == {SubSeq(TruncatedOf, 1, k) : k \in 1..(Len(TruncatedOf) - 1)}

JsonAlphabet == {"[", "]", "{", "}", ",", " ", "\"", "1"}

RawBodies == SeqsUpTo(JsonAlphabet, MaxRawLen)

JsonBodies == WellFormedBodies \cup TruncatedBodies \cup RawBodies

\* -- bytes that are no ASCII. "C3" then "A9" are the two bytes of one
\* character; "FF" is a byte that no UTF-8 text holds
LeadByte == "C3"

ContinuationByte == "A9"

InvalidByte == "FF"

\* String::from_utf8(bytes.to_vec()).is_ok()
RECURSIVE IsUtf8(_)
IsUtf8(bytes) ==
    IF bytes = <<>> THEN TRUE
    ELSE IF Head(bytes) = LeadByte
    THEN Len(bytes) >= 2 /\ bytes[2] = ContinuationByte /\ IsUtf8(DropFirst(bytes, 2))
    ELSE IF Head(bytes) \in {ContinuationByte, InvalidByte} THEN FALSE
    ELSE IsUtf8(Tail(bytes))

\* "\u{e9}\nb\n", "a\u{e9}", and a stream with a byte that is no UTF-8
Utf8DelimBodies ==
    {<<LeadByte, ContinuationByte, "\n", "b", "\n">>,
     <<"a", LeadByte, ContinuationByte>>,
     <<"a", "\n", InvalidByte, "b", "\n">>,
     <<"a", "\n", "b", "\n", "a", "\n">>}

\* {"\u{e9}":1}
ObjAccent == <<"{", "\"", LeadByte, ContinuationByte, "\"", ":", "1", "}">>

Utf8JsonBodies ==
    {ArrayText(<<ObjAccent>>, FALSE), ArrayText(<<ObjAccent, ObjPlain>>, TRUE),
     ArrayText(<<ObjPlain>>, FALSE) \o <<InvalidByte>>}

-----------------------------------------------------------------------------
(* WebStream: construction *)

Msg(text) == [kind |-> "msg", text |-> text]

Err == [kind |-> "err", text |-> <<>>]

\* Err(FromUtf8Error)
Utf8Err == [kind |-> "err", text |-> <<"utf8">>]

NoScan == [scanned |-> FALSE, partial |-> None, bytes |-> <<>>, messages |-> <<>>, after |-> None]

\* WebStream::new_with_delimiter / new_with_pretty_json_array, and a caller that
\* has not polled yet
InitWeb ==
    /\ reqwest_builder = TRUE
    /\ response_future = FALSE
    /\ bytes_stream = FALSE
    /\ partial_message = None
    /\ remaining_messages = <<>>
    /\ pos = 0
    /\ deliveries = 0
    /\ src_state = "open"
    /\ pc = "idle"
    /\ yielded = <<>>
    /\ completed = FALSE
    /\ discovered = <<>>
    /\ last_scan = NoScan
    /\ eos_partial = <<>>

\* GeminiStreamer::new
\* no unit has been decoded yet
NoUnit ==
    [some |-> FALSE,
     unit |-> [kind |-> "unit", content |-> [tag |-> "None", text |-> <<>>],
               reasoning_content |-> [tag |-> "None", text |-> <<>>], usage |-> 1],
     at |-> 0, msg |-> 0]

InitStreamer ==
    /\ done = FALSE
    /\ captured_data = [usage |-> None, content |-> None, reasoning_content |-> None]
    /\ pending_main_content = None
    /\ es_state = "connecting"
    /\ es_sent = 0
    /\ g_pc = "idle"
    /\ g_yielded = <<>>
    /\ g_completed = FALSE
    /\ decoded = NoUnit
    /\ es_last = "none"

\* LlamaCppStreamer::new on a fresh channel, and a task that has not started
InitLlamaStreamer ==
    /\ receiver = <<>>
    /\ buffer = <<>>
    /\ finished = FALSE
    /\ rx_dropped = FALSE
    /\ tx_dropped = FALSE
    /\ task = "generating"
    /\ tokens = 0
    /\ wasted = 0
    /\ sent = <<>>
    /\ l_yielded = <<>>
    /\ l_completed = FALSE

\* the tasks that call the ModelManager
Callers == 1..MaxCallers

\* the model files
Paths == {"a.gguf", "b.gguf"}

\* the static MODEL_MANAGER before any call, and callers that have called nothing
InitManager ==
    /\ MODEL_MANAGER = 0
    /\ init_permit = 0
    /\ backend_inits = 0
    /\ models = [p \in Paths |-> 0]
    /\ disk_loads = [p \in Paths |-> 0]
    /\ next_model = 1
    /\ caller = [c \in Callers |-> [pc |-> "idle", path |-> "a.gguf", loaded |-> 0, calls |-> 0]]
    /\ returned_managers = {}
    /\ returned_models = [p \in Paths |-> {}]

AllCaptures == [capture_usage |-> TRUE, capture_content |-> TRUE, capture_reasoning_content |-> TRUE]

\* the two streams of a pair
Instances == {1, 2}

\* WebStream::new_with_delimiter / new_with_pretty_json_array over a byte source
\* that will deliver `text`
WebStreamNew(mode, delim, text) ==
    [stream_mode |-> mode, delimiter |-> delim, body |-> text, pos |-> 0, deliveries |-> 0,
     reqwest_builder |-> TRUE, bytes_stream |-> FALSE, partial_message |-> None,
     remaining_messages |-> <<>>, yielded |-> <<>>, completed |-> FALSE, log |-> <<>>]

\* GeminiStreamer::new
GeminiStreamerNew(opts) ==
    [options |-> opts, done |-> FALSE,
     captured_data |-> [usage |-> None, content |-> None, reasoning_content |-> None],
     pending_main_content |-> None, es_state |-> "connecting", es_sent |-> 0,
     yielded |-> <<>>, completed |-> FALSE, log |-> <<>>]

\* a pair that is not used
InitPair ==
    /\ pair_kind = "WebStream"
    /\ streams = [i \in Instances |-> WebStreamNew("Delimiter", <<"\n">>, <<>>)]
    /\ streamers = [i \in Instances |-> GeminiStreamerNew(AllCaptures)]

\* the streams that a run does not use
InitOthers ==
    /\ InitLlamaStreamer
    /\ capture_requested = TRUE
    /\ InitManager
    /\ InitPair

InitDelim ==
    /\ stream_mode = "Delimiter"
    /\ delimiter \in Delimiters
    /\ body \in DelimBodies
    /\ InitWeb
    /\ options = AllCaptures
    /\ InitStreamer
    /\ InitOthers

InitJson ==
    /\ stream_mode = "PrettyJsonArray"
    /\ delimiter = <<>>
    /\ body \in JsonBodies
    /\ InitWeb
    /\ options = AllCaptures
    /\ InitStreamer
    /\ InitOthers

\* either mode, on byte streams that are not all ASCII
InitUtf8 ==
    /\ \/ /\ stream_mode = "Delimiter"
          /\ delimiter = <<"\n">>
          /\ body \in Utf8DelimBodies
       \/ /\ stream_mode = "PrettyJsonArray"
          /\ delimiter = <<>>
          /\ body \in Utf8JsonBodies
    /\ InitWeb
    /\ options = AllCaptures
    /\ InitStreamer
    /\ InitOthers

-----------------------------------------------------------------------------
(* WebStream::poll_next. A call that finds a queued message returns it; any *)
(* other call runs the loop, one action per iteration, until an iteration    *)
(* returns (pc = "idle") instead of continuing (pc = "loop").               *)

\* a call that polls the source without looking at the queue
InLoopIgnoringQueue == TRUE

\* the call is past the queue check
InLoop == pc = "loop" \/ remaining_messages = <<>>

\* the iteration reaches `if let Some(ref mut stream) = this.bytes_stream`
AtBytesStream == InLoop /\ ~response_future /\ bytes_stream

\* -- First, we check if we have any remaining messages to send.
PollQueued ==
    /\ pc = "idle"
    /\ remaining_messages # <<>>
    /\ remaining_messages' = Tail(remaining_messages)
    /\ yielded' = Append(yielded, Msg(Head(remaining_messages)))
    /\ UNCHANGED <<stream_mode, delimiter, reqwest_builder, response_future, bytes_stream,
                   partial_message, body, pos, deliveries, src_state, pc, completed,
                   discovered, last_scan, eos_partial>>
    /\ UNCHANGED nonWebVars

PollResponseReady ==
    /\ InLoop
    /\ response_future
    /\ bytes_stream' = TRUE
    /\ response_future' = FALSE
    /\ pc' = "loop"
    /\ UNCHANGED <<stream_mode, delimiter, reqwest_builder, partial_message,
                   remaining_messages, body, pos, deliveries, src_state, yielded,
                   completed, discovered, last_scan, eos_partial>>
    /\ UNCHANGED nonWebVars

PollResponseError ==
    /\ InLoop
    /\ response_future
    /\ response_future' = FALSE
    /\ yielded' = Append(yielded, Err)
    /\ pc' = "idle"
    /\ UNCHANGED <<stream_mode, delimiter, reqwest_builder, bytes_stream, partial_message,
                   remaining_messages, body, pos, deliveries, src_state, completed,
                   discovered, last_scan, eos_partial>>
    /\ UNCHANGED nonWebVars

PollResponsePending ==
    /\ InLoop
    /\ response_future
    /\ pc' = "idle"
    /\ UNCHANGED <<stream_mode, delimiter, reqwest_builder, response_future, bytes_stream,
                   partial_message, remaining_messages, body, pos, deliveries, src_state,
                   yielded, completed, discovered, last_scan, eos_partial>>
    /\ UNCHANGED nonWebVars

\* the messages of a BuffResponse, in order
Found(r) ==
    (IF r.first_message.some THEN <<r.first_message.v>> ELSE <<>>) \o r.next_messages

\* `if let Some(candidate_message) = candidate_message`: the partial after the scan
NextPartial(r) == IF r.candidate_message.some THEN r.candidate_message ELSE r.partial

\* a delivery without a message makes the call return Poll::Pending
AfterEmptyScanPending == "idle"

\* `continue` after a delivery without a message: the loop polls again
AfterEmptyScan == "loop"

\* Poll::Ready(Some(Ok(bytes))): the source delivers the next n bytes of the body
PollBytesChunk ==
    /\ AtBytesStream
    /\ src_state = "open"
    /\ pos < Len(body)
    /\ \E n \in 1..(Len(body) - pos) :
          /\ deliveries + 1 = MaxDeliveries => n = Len(body) - pos
          /\ IsUtf8(SubSeq(body, pos + 1, pos + n))
          /\ \E r \in {ProcessBuff(stream_mode, SubSeq(body, pos + 1, pos + n),
                                   partial_message, delimiter)} :
                /\ pos' = pos + n
                /\ deliveries' = deliveries + 1
                /\ remaining_messages' = remaining_messages \o r.next_messages
                /\ partial_message' = NextPartial(r)
                /\ discovered' = discovered \o Found(r)
                /\ last_scan' = [scanned |-> TRUE, partial |-> partial_message,
                                 bytes |-> SubSeq(body, pos + 1, pos + n),
                                 messages |-> Found(r), after |-> NextPartial(r)]
                /\ IF r.first_message.some
                   THEN /\ yielded' = Append(yielded, Msg(r.first_message.v))
                        /\ pc' = "idle"
                   ELSE /\ yielded' = yielded
                        /\ pc' = AfterEmptyScan
    /\ UNCHANGED <<stream_mode, delimiter, reqwest_builder, response_future, bytes_stream,
                   body, src_state, completed, eos_partial>>
    /\ UNCHANGED nonWebVars

\* Poll::Ready(Some(Ok(bytes))) with bytes that are no UTF-8: `Err(e) => return ..`
PollBytesInvalidUtf8 ==
    /\ AtBytesStream
    /\ src_state = "open"
    /\ pos < Len(body)
    /\ \E n \in 1..(Len(body) - pos) :
          /\ deliveries + 1 = MaxDeliveries => n = Len(body) - pos
          /\ ~IsUtf8(SubSeq(body, pos + 1, pos + n))
          /\ pos' = pos + n
    /\ deliveries' = deliveries + 1
    /\ yielded' = Append(yielded, Utf8Err)
    /\ pc' = "idle"
    /\ UNCHANGED <<stream_mode, delimiter, reqwest_builder, response_future, bytes_stream,
                   partial_message, remaining_messages, body, src_state, completed,
                   discovered, last_scan, eos_partial>>
    /\ UNCHANGED nonWebVars

\* Poll::Ready(Some(Err(e)))
PollBytesError ==
    /\ AtBytesStream
    /\ src_state = "open"
    /\ src_state' = "failed"
    /\ yielded' = Append(yielded, Err)
    /\ pc' = "idle"
    /\ UNCHANGED <<stream_mode, delimiter, reqwest_builder, response_future, bytes_stream,
                   partial_message, remaining_messages, body, pos, deliveries, completed,
                   discovered, last_scan, eos_partial>>
    /\ UNCHANGED nonWebVars

\* Poll::Ready(None): the source has delivered the whole body, or has failed before
\* (a source that has ended or failed keeps answering None)
PollBytesEnd ==
    /\ AtBytesStream
    /\ src_state # "open" \/ pos = Len(body)
    /\ src_state' = IF src_state = "failed" THEN "failed" ELSE "ended"
    /\ partial_message' = None
    /\ eos_partial' = Append(eos_partial, partial_message)
    /\ IF EmitFinalPartial(stream_mode, partial_message)
       THEN /\ yielded' = Append(yielded, Msg(partial_message.v))
            /\ pc' = "idle"
            /\ bytes_stream' = bytes_stream
       ELSE /\ yielded' = yielded
            /\ pc' = "loop"
            /\ bytes_stream' = FALSE
    /\ UNCHANGED <<stream_mode, delimiter, reqwest_builder, response_future,
                   remaining_messages, body, pos, deliveries, completed, discovered,
                   last_scan>>
    /\ UNCHANGED nonWebVars

\* Poll::Pending
PollBytesPending ==
    /\ AtBytesStream
    /\ src_state = "open"
    /\ pc' = "idle"
    /\ UNCHANGED <<stream_mode, delimiter, reqwest_builder, response_future, bytes_stream,
                   partial_message, remaining_messages, body, pos, deliveries, src_state,
                   yielded, completed, discovered, last_scan, eos_partial>>
    /\ UNCHANGED nonWebVars

\* a request that is sent from a builder that is left in place
PollSendRequestKeepsBuilder ==
    /\ InLoop
    /\ ~response_future
    /\ ~bytes_stream
    /\ reqwest_builder
    /\ response_future' = TRUE
    /\ pc' = "loop"
    /\ UNCHANGED <<stream_mode, delimiter, reqwest_builder, bytes_stream, partial_message,
                   remaining_messages, body, pos, deliveries, src_state, yielded,
                   completed, discovered, last_scan, eos_partial>>
    /\ UNCHANGED nonWebVars

\* `if let Some(reqwest_builder) = this.reqwest_builder.take()`
PollSendRequest ==
    /\ InLoop
    /\ ~response_future
    /\ ~bytes_stream
    /\ reqwest_builder
    /\ reqwest_builder' = FALSE
    /\ response_future' = TRUE
    /\ pc' = "loop"
    /\ UNCHANGED <<stream_mode, delimiter, bytes_stream, partial_message,
                   remaining_messages, body, pos, deliveries, src_state, yielded,
                   completed, discovered, last_scan, eos_partial>>
    /\ UNCHANGED nonWebVars

\* `return Poll::Ready(None)`
PollComplete ==
    /\ InLoop
    /\ ~response_future
    /\ ~bytes_stream
    /\ ~reqwest_builder
    /\ completed' = TRUE
    /\ pc' = "idle"
    /\ UNCHANGED <<stream_mode, delimiter, reqwest_builder, response_future, bytes_stream,
                   partial_message, remaining_messages, body, pos, deliveries, src_state,
                   yielded, discovered, last_scan, eos_partial>>
    /\ UNCHANGED nonWebVars

NextWeb ==
    \/ PollQueued
    \/ PollResponseReady
    \/ PollResponseError
    \/ PollResponsePending
    \/ PollBytesChunk
    \/ PollBytesError
    \/ PollBytesEnd
    \/ PollBytesPending
    \/ PollSendRequest
    \/ PollComplete

SpecDelim == InitDelim /\ [][NextWeb]_vars

SpecJson == InitJson /\ [][NextWeb]_vars

\* the answers of the request and of the byte source other than Poll::Pending
PollAnswered ==
    \/ PollQueued
    \/ PollSendRequest
    \/ PollResponseReady
    \/ PollResponseError
    \/ PollBytesError
    \/ PollBytesEnd
    \/ PollBytesChunk
    \/ PollComplete

\* bodies for the runs to completion: arrays of objects, pretty and compact,
\* an empty array, an array cut inside an object, and text that is no array
RunBodies ==
    {ArrayText(<<ObjPlain, ObjNested>>, TRUE),
     ArrayText(<<ObjTricky, ObjPlain>>, FALSE),
     ArrayText(<<>>, FALSE),
     <<"[", "{", "\"", "a", "\"", ":">>,
     <<"[", "[", "1", "]", "]">>,
     <<"}", " ", "{">>}

InitJsonRun ==
    /\ stream_mode = "PrettyJsonArray"
    /\ delimiter = <<>>
    /\ body \in RunBodies
    /\ InitWeb
    /\ options = AllCaptures
    /\ InitStreamer
    /\ InitOthers

\* the caller pulls again and again, and neither the request nor the byte
\* source stays pending forever
SpecJsonFair == InitJsonRun /\ [][NextWeb]_vars /\ WF_vars(PollAnswered)

\* the same calls on byte streams that are not all ASCII
NextWebUtf8 ==
    \/ NextWeb
    \/ PollBytesInvalidUtf8

SpecUtf8 == InitUtf8 /\ [][NextWebUtf8]_vars

-----------------------------------------------------------------------------
(* GeminiStreamer: the messages of the EventSource and their decoding *)

NoContent == [tag |-> "None", text |-> <<>>]

TextContent(text) == [tag |-> "Text", text |-> text]

ToolCallContent == [tag |-> "ToolCall", text |-> <<>>]

MainTexts == {<<"a">>, <<"b">>}

ReasoningTexts == {<<"r">>}

Usages == {1, 2}

\* GeminiChatResponse { content, reasoning_content, usage }
Units ==
    [kind : {"unit"},
     content : {NoContent, ToolCallContent} \cup {TextContent(x) : x \in MainTexts},
     reasoning_content : {NoContent, ToolCallContent} \cup {TextContent(x) : x \in ReasoningTexts},
     usage : Usages]

\* a message whose data is no JSON, and one whose JSON holds an `error` property
Undecodable ==
    [kind : {"invalid_json", "error_body"}, content : {NoContent},
     reasoning_content : {NoContent}, usage : {1}]

Messages == Units \cup Undecodable

\* serde_json::from_str::<Value>(&message.data)
DataIsJson(m) == m.kind # "invalid_json"

\* GeminiAdapter::body_to_gemini_chat_response
body_to_gemini_chat_response(m) ==
    IF m.kind = "error_body" THEN [ok |-> FALSE, unit |-> m] ELSE [ok |-> TRUE, unit |-> m]

NoCapture == [usage |-> None, content |-> None, reasoning_content |-> None]

Item(kind, text, cause, end) == [kind |-> kind, text |-> text, cause |-> cause, end |-> end]

StartEvent == Item("Start", <<>>, "", NoCapture)

ChunkEvent(text) == Item("Chunk", text, "", NoCapture)

ReasoningChunkEvent(text) == Item("ReasoningChunk", text, "", NoCapture)

ToolCallEvent == Item("ToolCall", <<>>, "", NoCapture)

\* an End that carries no aggregate
EndEventEmpty(captured) == Item("End", <<>>, "", NoCapture)

\* InterStreamEvent::End(InterStreamEnd { .. }) with the captured data moved into it
EndEvent(captured) == Item("End", <<>>, "", captured)

ErrItem(cause) == Item("Err", <<>>, cause, NoCapture)

\* `Some(ref mut c) => c.push_str(&text), None => Some(text.clone())`
PushStr(opt, text) == Some(PartialText(opt) \o text)

\* a capture that adds the snapshot to the one it holds
CaptureUsageAdd(opts, captured, usage) ==
    IF opts.capture_usage
    THEN [captured EXCEPT !.usage = Some((IF @.some THEN @.v ELSE 0) + usage)]
    ELSE captured

\* `if self.options.capture_usage { self.captured_data.usage = Some(usage); }`
CaptureUsage(opts, captured, usage) ==
    IF opts.capture_usage THEN [captured EXCEPT !.usage = Some(usage)] ELSE captured

\* a capture of the content that does not look at its option
CaptureContentAlways(opts, captured, text) == [captured EXCEPT !.content = PushStr(@, text)]

\* `if self.options.capture_content { .. push_str(&main_text) .. }`
CaptureContent(opts, captured, text) ==
    IF opts.capture_content THEN [captured EXCEPT !.content = PushStr(@, text)] ELSE captured

\* a capture that keeps the last reasoning text only
CaptureReasoningReplace(opts, captured, text) ==
    IF opts.capture_reasoning_content
    THEN [captured EXCEPT !.reasoning_content = Some(text)]
    ELSE captured

\* `if self.options.capture_reasoning_content { .. push_str(&reasoning_text) .. }`
CaptureReasoning(opts, captured, text) ==
    IF opts.capture_reasoning_content
    THEN [captured EXCEPT !.reasoning_content = PushStr(@, text)]
    ELSE captured

\* a dispatch that looks at the reasoning text before the tool call
OnUnitReasoningFirst(unit, opts, captured) ==
    IF unit.reasoning_content.tag = "Text"
    THEN [ret |-> Some(ReasoningChunkEvent(unit.reasoning_content.text)),
          captured |-> CaptureReasoning(opts, CaptureUsage(opts, captured, unit.usage),
                                        unit.reasoning_content.text),
          pending |-> IF unit.content.tag = "Text" THEN Some(unit.content.text) ELSE None]
    ELSE IF unit.content.tag = "ToolCall"
    THEN [ret |-> Some(ToolCallEvent),
          captured |-> CaptureUsage(opts, captured, unit.usage),
          pending |-> None]
    ELSE IF unit.content.tag = "Text"
    THEN [ret |-> Some(ChunkEvent(unit.content.text)),
          captured |-> CaptureContent(opts, CaptureUsage(opts, captured, unit.usage),
                                      unit.content.text),
          pending |-> None]
    ELSE [ret |-> None,
          captured |-> CaptureUsage(opts, captured, unit.usage),
          pending |-> None]

\* the Ok arm of body_to_gemini_chat_response: what poll_next returns for one
\* decoded unit (ret = None: `continue`) and what it leaves in the streamer
OnUnit(unit, opts, captured) ==
    IF unit.content.tag = "ToolCall"
    THEN [ret |-> Some(ToolCallEvent),
          captured |-> CaptureUsage(opts, captured, unit.usage),
          pending |-> None]
    ELSE IF unit.reasoning_content.tag = "Text"
    THEN [ret |-> Some(ReasoningChunkEvent(unit.reasoning_content.text)),
          captured |-> CaptureReasoning(opts, CaptureUsage(opts, captured, unit.usage),
                                        unit.reasoning_content.text),
          pending |-> IF unit.content.tag = "Text" THEN Some(unit.content.text) ELSE None]
    ELSE IF unit.content.tag = "Text"
    THEN [ret |-> Some(ChunkEvent(unit.content.text)),
          captured |-> CaptureContent(opts, CaptureUsage(opts, captured, unit.usage),
                                      unit.content.text),
          pending |-> None]
    ELSE [ret |-> None,
          captured |-> CaptureUsage(opts, captured, unit.usage),
          pending |-> None]

\* Event::Message(message): what poll_next returns and leaves; `ended` is the
\* value of `done` afterwards
OnMessage(m, opts, captured) ==
    IF ~DataIsJson(m)
    THEN [ret |-> Some(ErrItem("StreamParse")), captured |-> captured, pending |-> None,
          ended |-> FALSE]
    ELSE IF ~body_to_gemini_chat_response(m).ok
    THEN [ret |-> Some(ErrItem("StreamEventError")), captured |-> captured, pending |-> None,
          ended |-> FALSE]
    ELSE [ended |-> FALSE] @@ OnUnit(body_to_gemini_chat_response(m).unit, opts, captured)

\* the message was decoded into a unit
IsDecoded(m) == DataIsJson(m) /\ body_to_gemini_chat_response(m).ok

-----------------------------------------------------------------------------
(* GeminiStreamer::poll_next. A call returns at once when the stream is done *)
(* or a main text is pending; any other call polls the EventSource, one      *)
(* action per iteration of the loop.                                         *)

\* an idle WebStream, for the runs of the streamer alone
InitGemini ==
    /\ stream_mode = "PrettyJsonArray"
    /\ delimiter = <<>>
    /\ body = <<>>
    /\ InitWeb
    /\ options \in [capture_usage : BOOLEAN, capture_content : BOOLEAN,
                    capture_reasoning_content : BOOLEAN]
    /\ InitStreamer
    /\ InitOthers

\* the EventSource is polled even when the stream is done
AtEventSourceWhenDone == g_pc = "loop" \/ ~pending_main_content.some

\* the EventSource is polled even when a main text is pending
AtEventSourceWhenPending == ~done

\* the call polls self.inner
AtEventSource == ~done /\ (g_pc = "loop" \/ ~pending_main_content.some)

\* `if self.done { return Poll::Ready(None); }`
GPollDone ==
    /\ g_pc = "idle"
    /\ done
    /\ g_completed' = TRUE
    /\ UNCHANGED <<done, options, captured_data, pending_main_content, es_state, es_sent,
                   g_pc, g_yielded, decoded, es_last>>
    /\ UNCHANGED nonGemVars

\* the pending main text is emitted but not captured
GPollPendingContentUncaptured ==
    /\ g_pc = "idle"
    /\ ~done
    /\ pending_main_content.some
    /\ pending_main_content' = None
    /\ g_yielded' = Append(g_yielded, ChunkEvent(pending_main_content.v))
    /\ UNCHANGED <<done, options, captured_data, es_state, es_sent, g_pc, g_completed,
                   decoded, es_last>>
    /\ UNCHANGED nonGemVars

\* -- Emit pending main content first if it exists
GPollPendingContent ==
    /\ g_pc = "idle"
    /\ ~done
    /\ pending_main_content.some
    /\ pending_main_content' = None
    /\ captured_data' = CaptureContent(options, captured_data, pending_main_content.v)
    /\ g_yielded' = Append(g_yielded, ChunkEvent(pending_main_content.v))
    /\ UNCHANGED <<done, options, es_state, es_sent, g_pc, g_completed, decoded, es_last>>
    /\ UNCHANGED nonGemVars

\* Event::Open
GPollOpen ==
    /\ AtEventSource
    /\ es_state = "connecting"
    /\ es_state' = "open"
    /\ es_last' = "Ready"
    /\ g_yielded' = Append(g_yielded, StartEvent)
    /\ g_pc' = "idle"
    /\ UNCHANGED <<done, options, captured_data, pending_main_content, es_sent, g_completed,
                   decoded>>
    /\ UNCHANGED nonGemVars

\* the call returns Poll::Pending instead of going on
ContinueAsPending == "idle"

\* `continue`: the call stays in its loop and polls the EventSource again
ContinueLoop == "loop"

\* Event::Message(message)
GPollMessage ==
    /\ AtEventSource
    /\ es_state = "open"
    /\ es_sent < MaxMessages
    /\ \E m \in Messages :
          \E r \in {OnMessage(m, options, captured_data)} :
             /\ captured_data' = r.captured
             /\ pending_main_content' = r.pending
             /\ done' = r.ended
             /\ IF r.ret.some
                THEN /\ g_yielded' = Append(g_yielded, r.ret.v)
                     /\ g_pc' = "idle"
                ELSE /\ g_yielded' = g_yielded
                     /\ g_pc' = ContinueLoop
             /\ decoded' = IF IsDecoded(m)
                           THEN [some |-> TRUE, unit |-> m,
                                 at |-> IF r.ret.some THEN Len(g_yielded) + 1 ELSE 0,
                                 msg |-> es_sent + 1]
                           ELSE decoded
    /\ es_sent' = es_sent + 1
    /\ es_last' = "Ready"
    /\ UNCHANGED <<options, es_state, g_completed>>
    /\ UNCHANGED nonGemVars

\* the captured data is moved out with Option::take
EndOfStream ==
    /\ done' = TRUE
    /\ g_yielded' = Append(g_yielded, EndEvent(captured_data))
    /\ captured_data' = NoCapture
    /\ g_pc' = "idle"
    /\ UNCHANGED <<options, pending_main_content, es_sent, g_completed, decoded>>
    /\ UNCHANGED nonGemVars

\* Err(reqwest_eventsource::Error::StreamEnded); the EventSource then closes
\* or, when its retry policy says so, connects again
GPollStreamEnded ==
    /\ AtEventSource
    /\ es_state = "open"
    /\ es_state' \in {"closed", "connecting"}
    /\ es_last' = "StreamEnded"
    /\ EndOfStream

\* Poll::Ready(None)
GPollNone ==
    /\ AtEventSource
    /\ es_state = "open"
    /\ es_state' = "closed"
    /\ es_last' = "None"
    /\ EndOfStream

\* a transport error that is yielded without ending the stream
GPollTransportErrorNotFatal ==
    /\ AtEventSource
    /\ es_state \in {"connecting", "open"}
    /\ g_yielded' = Append(g_yielded, ErrItem("ReqwestEventSource"))
    /\ es_state' \in {"closed", "connecting"}
    /\ es_last' = "Error"
    /\ g_pc' = "idle"
    /\ UNCHANGED <<done, options, captured_data, pending_main_content, es_sent, g_completed,
                   decoded>>
    /\ UNCHANGED nonGemVars

\* any other Err of the EventSource; it then closes or connects again
GPollTransportError ==
    /\ AtEventSource
    /\ es_state \in {"connecting", "open"}
    /\ done' = TRUE
    /\ g_yielded' = Append(g_yielded, ErrItem("ReqwestEventSource"))
    /\ es_state' \in {"closed", "connecting"}
    /\ es_last' = "Error"
    /\ g_pc' = "idle"
    /\ UNCHANGED <<options, captured_data, pending_main_content, es_sent, g_completed,
                   decoded>>
    /\ UNCHANGED nonGemVars

\* Poll::Pending
GPollSourcePending ==
    /\ AtEventSource
    /\ es_state \in {"connecting", "open"}
    /\ g_pc' = "idle"
    /\ es_last' = "Pending"
    /\ UNCHANGED <<done, options, captured_data, pending_main_content, es_state, es_sent,
                   g_yielded, g_completed, decoded>>
    /\ UNCHANGED nonGemVars

NextGemini ==
    \/ GPollDone
    \/ GPollPendingContent
    \/ GPollOpen
    \/ GPollMessage
    \/ GPollStreamEnded
    \/ GPollNone
    \/ GPollTransportError
    \/ GPollSourcePending

SpecGemini == InitGemini /\ [][NextGemini]_vars

-----------------------------------------------------------------------------
(* LlamaCppStreamer, its channel and the generation task                     *)
(* (src/src/adapter/adapters/llamacpp/streamer.rs, adapter_impl.rs)          *)

Delta(text) == [tag |-> "Delta", text |-> text]

Done == [tag |-> "Done", text |-> <<>>]

Error(err) == [tag |-> "Error", text |-> err]

\* the texts that decode_to_string gives for the bytes of a token; it is empty
\* when the bytes end inside a character
TokenTexts == {<<>>, <<"t">>, <<"u">>}

\* a run of the LlamaCpp stream alone
InitLlama ==
    /\ stream_mode = "PrettyJsonArray"
    /\ delimiter = <<>>
    /\ body = <<>>
    /\ InitWeb
    /\ options = AllCaptures
    /\ InitStreamer
    /\ InitLlamaStreamer
    /\ capture_requested \in BOOLEAN
    /\ InitManager
    /\ InitPair

\* tx.send(chunk) returns: Err when the receiver is dropped, Ok when the channel
\* has room; it waits otherwise
SendFails == rx_dropped

SendSucceeds == ~rx_dropped /\ Len(receiver) < MaxChannel

\* a task that goes on generating after a send has failed
AfterFailedDeltaGoesOn == "generating"

\* `if let Err(_) = .. tx.send(StreamChunk::Delta(..)) { break; }`: the loop is
\* left, generate_tokens returns Ok and Done is sent next
AfterFailedDelta == "send_done"

\* one iteration of the generation loop up to the send of its token
GenToken ==
    /\ task = "generating"
    /\ tokens < MaxTokens
    /\ tokens' = tokens + 1
    /\ wasted' = IF rx_dropped THEN wasted + 1 ELSE wasted
    /\ task' = "sending"
    /\ UNCHANGED <<receiver, buffer, finished, rx_dropped, tx_dropped, sent, capture_requested,
                   l_yielded, l_completed>>
    /\ UNCHANGED nonLlamaVars

\* tx.send(StreamChunk::Delta(token_text))
SendDelta ==
    /\ task = "sending"
    /\ \/ /\ SendSucceeds
          /\ \E text \in TokenTexts :
                /\ receiver' = Append(receiver, Delta(text))
                /\ sent' = Append(sent, Delta(text))
          /\ task' = "generating"
       \/ /\ SendFails
          /\ receiver' = receiver
          /\ sent' = sent
          /\ task' = AfterFailedDelta
    /\ UNCHANGED <<buffer, finished, rx_dropped, tx_dropped, tokens, wasted,
                   capture_requested, l_yielded, l_completed>>
    /\ UNCHANGED nonLlamaVars

\* the loop ends: an end-of-generation token, max_tokens or the context limit
GenEnd ==
    /\ task = "generating"
    /\ task' = "send_done"
    /\ UNCHANGED <<receiver, buffer, finished, rx_dropped, tx_dropped, tokens, wasted, sent,
                   capture_requested, l_yielded, l_completed>>
    /\ UNCHANGED nonLlamaVars

\* the generation returns an Err (model path, model load, batch, decode)
GenFails ==
    /\ task = "generating"
    /\ task' = "send_error"
    /\ UNCHANGED <<receiver, buffer, finished, rx_dropped, tx_dropped, tokens, wasted, sent,
                   capture_requested, l_yielded, l_completed>>
    /\ UNCHANGED nonLlamaVars

\* `let _ = tx.send(chunk).await;` and the end of the task, which drops the senders
SendLast(chunk) ==
    /\ \/ /\ SendSucceeds
          /\ receiver' = Append(receiver, chunk)
          /\ sent' = Append(sent, chunk)
       \/ /\ SendFails
          /\ receiver' = receiver
          /\ sent' = sent
    /\ task' = "terminated"
    /\ tx_dropped' = TRUE
    /\ UNCHANGED <<buffer, finished, rx_dropped, tokens, wasted, capture_requested,
                   l_yielded, l_completed>>
    /\ UNCHANGED nonLlamaVars

\* `let _ = tx.send(StreamChunk::Done).await;`
SendDone ==
    /\ task = "send_done"
    /\ SendLast(Done)

\* `let _ = .. tx.send(StreamChunk::Error(e.to_string()))`
SendError ==
    /\ task = "send_error"
    /\ SendLast(Error(<<"e">>))

\* the blocking closure panics, while it generates or in the block_on of a
\* send that is nested in the block_on of the closure: its senders are dropped
\* and no chunk is sent
TaskPanics ==
    /\ task \in {"generating", "sending"}
    /\ task' = "terminated"
    /\ tx_dropped' = TRUE
    /\ UNCHANGED <<receiver, buffer, finished, rx_dropped, tokens, wasted, sent,
                   capture_requested, l_yielded, l_completed>>
    /\ UNCHANGED nonLlamaVars

\* the consumer drops the stream
DropStream ==
    /\ ~rx_dropped
    /\ rx_dropped' = TRUE
    /\ UNCHANGED <<receiver, buffer, finished, tx_dropped, task, tokens, wasted, sent,
                   capture_requested, l_yielded, l_completed>>
    /\ UNCHANGED nonLlamaVars

\* `if this.finished { return Poll::Ready(None); }`
LPollFinished ==
    /\ ~rx_dropped
    /\ finished
    /\ l_completed' = TRUE
    /\ UNCHANGED <<receiver, buffer, finished, rx_dropped, tx_dropped, task, tokens, wasted, sent,
                   capture_requested, l_yielded>>
    /\ UNCHANGED nonLlamaVars

\* an End that carries the buffer even when it is empty
LlamaEndOfAnyBuffer(buf) == [usage |-> None, content |-> Some(buf), reasoning_content |-> None]

\* the content of the End of a LlamaCppStreamer
LlamaEnd(buf) ==
    [usage |-> None, content |-> IF buf = <<>> THEN None ELSE Some(buf),
     reasoning_content |-> None]

\* Poll::Ready(Some(chunk))
LPollChunk ==
    /\ ~rx_dropped
    /\ ~finished
    /\ receiver # <<>>
    /\ receiver' = Tail(receiver)
    /\ \/ /\ Head(receiver).tag = "Delta"
          /\ buffer' = buffer \o Head(receiver).text
          /\ l_yielded' = Append(l_yielded, ChunkEvent(Head(receiver).text))
          /\ finished' = finished
       \/ /\ Head(receiver).tag = "Done"
          /\ buffer' = buffer
          /\ l_yielded' = Append(l_yielded, EndEvent(LlamaEnd(buffer)))
          /\ finished' = TRUE
       \/ /\ Head(receiver).tag = "Error"
          /\ buffer' = buffer
          /\ l_yielded' = Append(l_yielded, ErrItem("AdapterError"))
          /\ finished' = TRUE
    /\ UNCHANGED <<rx_dropped, tx_dropped, task, tokens, wasted, sent, capture_requested,
                   l_completed>>
    /\ UNCHANGED nonLlamaVars

\* Poll::Ready(None): the channel is empty and every sender is dropped
LPollClosed ==
    /\ ~rx_dropped
    /\ ~finished
    /\ receiver = <<>>
    /\ tx_dropped
    /\ finished' = TRUE
    /\ l_completed' = TRUE
    /\ UNCHANGED <<receiver, buffer, rx_dropped, tx_dropped, task, tokens, wasted, sent,
                   capture_requested, l_yielded>>
    /\ UNCHANGED nonLlamaVars

\* Poll::Pending: the channel is empty and a sender is alive
LPollPending ==
    /\ ~rx_dropped
    /\ ~finished
    /\ receiver = <<>>
    /\ ~tx_dropped
    /\ UNCHANGED llamaVars
    /\ UNCHANGED nonLlamaVars

\* the steps of the generation task
TaskNext ==
    \/ GenToken
    \/ SendDelta
    \/ GenEnd
    \/ GenFails
    \/ SendDone
    \/ SendError
    \/ TaskPanics

NextLlama ==
    \/ TaskNext
    \/ DropStream
    \/ LPollFinished
    \/ LPollChunk
    \/ LPollClosed
    \/ LPollPending

SpecLlama == InitLlama /\ [][NextLlama]_vars

\* the blocking task runs on its own thread: it takes a step whenever it can
SpecLlamaFair == SpecLlama /\ WF_vars(TaskNext)

-----------------------------------------------------------------------------
(* ModelManager (src/src/adapter/adapters/llamacpp/model_manager.rs)         *)

\* a run of the callers of the ModelManager alone
InitCallers ==
    /\ stream_mode = "PrettyJsonArray"
    /\ delimiter = <<>>
    /\ body = <<>>
    /\ InitWeb
    /\ options = AllCaptures
    /\ InitStreamer
    /\ InitLlamaStreamer
    /\ capture_requested = TRUE
    /\ InitManager
    /\ InitPair

\* a caller may start a call
MayCall(c) == caller[c].calls < MaxCalls

\* an initializer that does not wait for the permit of the cell
PermitAlwaysFree == TRUE

\* get_or_try_init runs one initializer at a time
PermitFree == init_permit = 0

\* instance() on a cell that is set: the value is cloned
InstanceGet(c) ==
    /\ caller[c].pc \in {"idle", "have"}
    /\ MayCall(c)
    /\ MODEL_MANAGER # 0
    /\ caller' = [caller EXCEPT ![c].pc = "have", ![c].calls = @ + 1]
    /\ returned_managers' = returned_managers \cup {MODEL_MANAGER}
    /\ UNCHANGED <<MODEL_MANAGER, init_permit, backend_inits, models, disk_loads, next_model,
                   returned_models>>
    /\ UNCHANGED nonManagerVars

\* instance() on a cell that is unset: the caller gets the permit and starts
\* the initializer
InstanceInit(c) ==
    /\ caller[c].pc = "idle"
    /\ MayCall(c)
    /\ MODEL_MANAGER = 0
    /\ PermitFree
    /\ init_permit' = c
    /\ caller' = [caller EXCEPT ![c].pc = "init", ![c].calls = @ + 1]
    /\ UNCHANGED <<MODEL_MANAGER, backend_inits, models, disk_loads, next_model,
                   returned_managers, returned_models>>
    /\ UNCHANGED nonManagerVars

\* LlamaBackend::init() is Ok: the cell is set and instance() returns its value
InitOk(c) ==
    /\ caller[c].pc = "init"
    /\ backend_inits' = backend_inits + 1
    /\ MODEL_MANAGER' = backend_inits + 1
    /\ init_permit' = 0
    /\ caller' = [caller EXCEPT ![c].pc = "have"]
    /\ returned_managers' = returned_managers \cup {backend_inits + 1}
    /\ UNCHANGED <<models, disk_loads, next_model, returned_models>>
    /\ UNCHANGED nonManagerVars

\* LlamaBackend::init() is Err: the permit is released, instance() returns the Err
InitErr(c) ==
    /\ caller[c].pc = "init"
    /\ init_permit' = 0
    /\ caller' = [caller EXCEPT ![c].pc = "idle"]
    /\ UNCHANGED <<MODEL_MANAGER, backend_inits, models, disk_loads, next_model,
                   returned_managers, returned_models>>
    /\ UNCHANGED nonManagerVars

\* load_model, the cache check under the read lock
LoadModelCheck(c, p) ==
    /\ caller[c].pc = "have"
    /\ MayCall(c)
    /\ \/ /\ models[p] # 0
          /\ caller' = [caller EXCEPT ![c].calls = @ + 1]
          /\ returned_models' = [returned_models EXCEPT ![p] = @ \cup {models[p]}]
       \/ /\ models[p] = 0
          /\ caller' = [caller EXCEPT ![c].pc = "miss", ![c].path = p, ![c].calls = @ + 1]
          /\ returned_models' = returned_models
    /\ UNCHANGED <<MODEL_MANAGER, init_permit, backend_inits, models, disk_loads, next_model,
                   returned_managers>>
    /\ UNCHANGED nonManagerVars

\* load_model_internal: the file is loaded, or load_model returns the Err
LoadModelInternal(c) ==
    /\ caller[c].pc = "miss"
    /\ \/ /\ disk_loads' = [disk_loads EXCEPT ![caller[c].path] = @ + 1]
          /\ next_model' = next_model + 1
          /\ caller' = [caller EXCEPT ![c].pc = "loaded", ![c].loaded = next_model]
       \/ /\ disk_loads' = disk_loads
          /\ next_model' = next_model
          /\ caller' = [caller EXCEPT ![c].pc = "have"]
    /\ UNCHANGED <<MODEL_MANAGER, init_permit, backend_inits, models, returned_managers,
                   returned_models>>
    /\ UNCHANGED nonManagerVars

\* load_model, the insert under the write lock and the return of the new model
LoadModelInsert(c) ==
    /\ caller[c].pc = "loaded"
    /\ models' = [models EXCEPT ![caller[c].path] = caller[c].loaded]
    /\ returned_models' = [returned_models EXCEPT ![caller[c].path] = @ \cup {caller[c].loaded}]
    /\ caller' = [caller EXCEPT ![c].pc = "have", ![c].loaded = 0]
    /\ UNCHANGED <<MODEL_MANAGER, init_permit, backend_inits, disk_loads, next_model,
                   returned_managers>>
    /\ UNCHANGED nonManagerVars

\* clear_cache
ClearCache(c) ==
    /\ caller[c].pc = "have"
    /\ MayCall(c)
    /\ models' = [p \in Paths |-> 0]
    /\ disk_loads' = [p \in Paths |-> 0]
    /\ returned_models' = [p \in Paths |-> {}]
    /\ caller' = [caller EXCEPT ![c].calls = @ + 1]
    /\ UNCHANGED <<MODEL_MANAGER, init_permit, backend_inits, next_model, returned_managers>>
    /\ UNCHANGED nonManagerVars

NextManager ==
    \E c \in Callers :
        \/ InstanceGet(c)
        \/ InstanceInit(c)
        \/ InitOk(c)
        \/ InitErr(c)
        \/ \E p \in Paths : LoadModelCheck(c, p)
        \/ LoadModelInternal(c)
        \/ LoadModelInsert(c)
        \/ ClearCache(c)

SpecManager == InitCallers /\ [][NextManager]_vars

-----------------------------------------------------------------------------
(* Two streams that are active at the same time. Each action is one call of  *)
(* poll_next on one of the two (for a WebStream, one iteration of its loop), *)
(* written as a function of the fields of the stream that is polled.         *)

\* what one call has met: the branch taken, and the bytes or the message read
Call(ev, n, m) == [ev |-> ev, n |-> n, m |-> m]

NoMessage == [kind |-> "unit", content |-> NoContent, reasoning_content |-> NoContent, usage |-> 1]

\* `if let Some(msg) = this.remaining_messages.pop_front()`
WebQueued(s) ==
    [s EXCEPT !.remaining_messages = Tail(@),
              !.yielded = Append(@, Msg(Head(s.remaining_messages))),
              !.log = Append(@, Call("queued", 0, NoMessage))]

\* the request is sent and its response is ready: the byte stream is set
WebStart(s) ==
    [s EXCEPT !.reqwest_builder = FALSE, !.bytes_stream = TRUE,
              !.log = Append(@, Call("start", 0, NoMessage))]

\* the stream after the scan of n bytes has answered r
WebScanned(s, n, r) ==
    [s EXCEPT !.pos = @ + n,
              !.deliveries = @ + 1,
              !.remaining_messages = @ \o r.next_messages,
              !.partial_message = NextPartial(r),
              !.yielded = IF r.first_message.some
                          THEN Append(@, Msg(r.first_message.v)) ELSE @,
              !.log = Append(@, Call("bytes", n, NoMessage))]

\* Poll::Ready(Some(Ok(bytes))) with the next n bytes of the body
WebBytes(s, n) ==
    CHOOSE after \in {WebScanned(s, n, r) :
                         r \in {ProcessBuff(s.stream_mode, SubSeq(s.body, s.pos + 1, s.pos + n),
                                            s.partial_message, s.delimiter)}} : TRUE

\* Poll::Ready(None) of the byte stream: the partial is taken and flushed, or
\* the byte stream is unset and the call returns Poll::Ready(None)
WebEnd(s) ==
    IF EmitFinalPartial(s.stream_mode, s.partial_message)
    THEN [s EXCEPT !.partial_message = None,
                   !.yielded = Append(@, Msg(s.partial_message.v)),
                   !.log = Append(@, Call("end", 0, NoMessage))]
    ELSE [s EXCEPT !.partial_message = None,
                   !.bytes_stream = FALSE,
                   !.completed = TRUE,
                   !.log = Append(@, Call("end", 0, NoMessage))]

\* `if self.done { return Poll::Ready(None); }`
StreamerDone(s) ==
    [s EXCEPT !.completed = TRUE, !.log = Append(@, Call("done", 0, NoMessage))]

\* the pending main text is captured and emitted
StreamerPending(s) ==
    [s EXCEPT !.pending_main_content = None,
              !.captured_data = CaptureContent(s.options, @, s.pending_main_content.v),
              !.yielded = Append(@, ChunkEvent(s.pending_main_content.v)),
              !.log = Append(@, Call("pending", 0, NoMessage))]

\* Event::Open
StreamerOpen(s) ==
    [s EXCEPT !.es_state = "open",
              !.yielded = Append(@, StartEvent),
              !.log = Append(@, Call("open", 0, NoMessage))]

\* the streamer after the message m has given r
StreamerDecoded(s, m, r) ==
    [s EXCEPT !.captured_data = r.captured,
              !.pending_main_content = r.pending,
              !.done = r.ended,
              !.es_sent = @ + 1,
              !.yielded = IF r.ret.some THEN Append(@, r.ret.v) ELSE @,
              !.log = Append(@, Call("message", 0, m))]

\* Event::Message(message)
StreamerMessage(s, m) ==
    CHOOSE after \in {StreamerDecoded(s, m, r) :
                         r \in {OnMessage(m, s.options, s.captured_data)}} : TRUE

\* Poll::Ready(None) or StreamEnded: End with the captured data moved into it
StreamerEnd(s) ==
    [s EXCEPT !.done = TRUE,
              !.es_state = "closed",
              !.yielded = Append(@, EndEvent(s.captured_data)),
              !.captured_data = NoCapture,
              !.log = Append(@, Call("ended", 0, NoMessage))]

\* any other Err of the EventSource
StreamerError(s) ==
    [s EXCEPT !.done = TRUE,
              !.es_state = "closed",
              !.yielded = Append(@, ErrItem("ReqwestEventSource")),
              !.log = Append(@, Call("error", 0, NoMessage))]

\* the bodies of the two WebStreams
PairBodies ==
    {<<"Delimiter", ExampleDelimBody>>,
     <<"Delimiter", <<"a", "\n", "b">>>>,
     <<"PrettyJsonArray", ArrayText(<<ObjPlain>>, FALSE)>>}

\* the messages that the EventSources of the two GeminiStreamers send
PairMessages ==
    {[kind |-> "unit", content |-> TextContent(<<"a">>),
      reasoning_content |-> TextContent(<<"r">>), usage |-> 1],
     [kind |-> "unit", content |-> TextContent(<<"b">>),
      reasoning_content |-> NoContent, usage |-> 2],
     [kind |-> "unit", content |-> NoContent, reasoning_content |-> NoContent, usage |-> 2]}

InitTwo ==
    /\ stream_mode = "PrettyJsonArray"
    /\ delimiter = <<>>
    /\ body = <<>>
    /\ InitWeb
    /\ options = AllCaptures
    /\ InitStreamer
    /\ InitLlamaStreamer
    /\ capture_requested = TRUE
    /\ InitManager
    /\ pair_kind \in {"WebStream", "GeminiStreamer"}
    /\ \E b1 \in PairBodies, b2 \in PairBodies :
          streams = [i \in Instances |->
                        IF pair_kind = "WebStream"
                        THEN WebStreamNew((IF i = 1 THEN b1 ELSE b2)[1], <<"\n">>,
                                          (IF i = 1 THEN b1 ELSE b2)[2])
                        ELSE WebStreamNew("Delimiter", <<"\n">>, <<>>)]
    /\ streamers = [i \in Instances |-> GeminiStreamerNew(AllCaptures)]

\* every stream reads the partial message of the first stream
FirstWebStream(ss, i) == [ss[i] EXCEPT !.partial_message = ss[1].partial_message]

\* `let this = self.get_mut();`: the fields read are those of the stream polled
ThisWebStream(ss, i) == ss[i]

\* `self`: the fields read are those of the streamer polled
ThisStreamer(ss, i) == ss[i]

PairPollQueued(i) ==
    /\ pair_kind = "WebStream"
    /\ streams[i].remaining_messages # <<>>
    /\ streams' = [streams EXCEPT ![i] = WebQueued(ThisWebStream(streams, i))]
    /\ UNCHANGED <<pair_kind, streamers>>
    /\ UNCHANGED nonPairVars

PairPollStart(i) ==
    /\ pair_kind = "WebStream"
    /\ streams[i].remaining_messages = <<>>
    /\ streams[i].reqwest_builder
    /\ streams' = [streams EXCEPT ![i] = WebStart(ThisWebStream(streams, i))]
    /\ UNCHANGED <<pair_kind, streamers>>
    /\ UNCHANGED nonPairVars

PairPollBytes(i) ==
    /\ pair_kind = "WebStream"
    /\ streams[i].remaining_messages = <<>>
    /\ streams[i].bytes_stream
    /\ streams[i].pos < Len(streams[i].body)
    /\ \E n \in 1..(Len(streams[i].body) - streams[i].pos) :
          /\ streams[i].deliveries + 1 = MaxDeliveries => n = Len(streams[i].body) - streams[i].pos
          /\ streams' = [streams EXCEPT ![i] = WebBytes(ThisWebStream(streams, i), n)]
    /\ UNCHANGED <<pair_kind, streamers>>
    /\ UNCHANGED nonPairVars

PairPollEnd(i) ==
    /\ pair_kind = "WebStream"
    /\ streams[i].remaining_messages = <<>>
    /\ streams[i].bytes_stream
    /\ streams[i].pos = Len(streams[i].body)
    /\ streams' = [streams EXCEPT ![i] = WebEnd(ThisWebStream(streams, i))]
    /\ UNCHANGED <<pair_kind, streamers>>
    /\ UNCHANGED nonPairVars

PairPollDone(i) ==
    /\ pair_kind = "GeminiStreamer"
    /\ streamers[i].done
    /\ ~streamers[i].completed
    /\ streamers' = [streamers EXCEPT ![i] = StreamerDone(ThisStreamer(streamers, i))]
    /\ UNCHANGED <<pair_kind, streams>>
    /\ UNCHANGED nonPairVars

PairPollPending(i) ==
    /\ pair_kind = "GeminiStreamer"
    /\ ~streamers[i].done
    /\ streamers[i].pending_main_content.some
    /\ streamers' = [streamers EXCEPT ![i] = StreamerPending(ThisStreamer(streamers, i))]
    /\ UNCHANGED <<pair_kind, streams>>
    /\ UNCHANGED nonPairVars

\* the call polls the EventSource of the streamer
PairAtEventSource(i) ==
    /\ pair_kind = "GeminiStreamer"
    /\ ~streamers[i].done
    /\ ~streamers[i].pending_main_content.some

PairPollOpen(i) ==
    /\ PairAtEventSource(i)
    /\ streamers[i].es_state = "connecting"
    /\ streamers' = [streamers EXCEPT ![i] = StreamerOpen(ThisStreamer(streamers, i))]
    /\ UNCHANGED <<pair_kind, streams>>
    /\ UNCHANGED nonPairVars

PairPollMessage(i) ==
    /\ PairAtEventSource(i)
    /\ streamers[i].es_state = "open"
    /\ streamers[i].es_sent < MaxPairMessages
    /\ \E m \in PairMessages :
          streamers' = [streamers EXCEPT ![i] = StreamerMessage(ThisStreamer(streamers, i), m)]
    /\ UNCHANGED <<pair_kind, streams>>
    /\ UNCHANGED nonPairVars

PairPollEnded(i) ==
    /\ PairAtEventSource(i)
    /\ streamers[i].es_state = "open"
    /\ streamers' = [streamers EXCEPT ![i] = StreamerEnd(ThisStreamer(streamers, i))]
    /\ UNCHANGED <<pair_kind, streams>>
    /\ UNCHANGED nonPairVars

PairPollError(i) ==
    /\ PairAtEventSource(i)
    /\ streamers[i].es_state \in {"connecting", "open"}
    /\ streamers' = [streamers EXCEPT ![i] = StreamerError(ThisStreamer(streamers, i))]
    /\ UNCHANGED <<pair_kind, streams>>
    /\ UNCHANGED nonPairVars

NextTwo ==
    \E i \in Instances :
        \/ PairPollQueued(i)
        \/ PairPollStart(i)
        \/ PairPollBytes(i)
        \/ PairPollEnd(i)
        \/ PairPollDone(i)
        \/ PairPollPending(i)
        \/ PairPollOpen(i)
        \/ PairPollMessage(i)
        \/ PairPollEnded(i)
        \/ PairPollError(i)

SpecTwo == InitTwo /\ [][NextTwo]_vars

-----------------------------------------------------------------------------
(* What the caller has observed *)

IsMsg(item) == item.kind = "msg"

IsErr(item) == item.kind = "err"

Texts(items) == [i \in 1..Len(items) |-> items[i].text]

\* the texts of the messages yielded so far, in order
YieldedTexts == Texts(SelectSeq(yielded, IsMsg))

ErrorsYielded == Len(SelectSeq(yielded, IsErr))

\* the run has completed and neither the request nor the byte source has failed
CleanCompletion == completed /\ ErrorsYielded = 0

IsNonEmpty(s) == s # <<>>

\* the first end-of-stream poll flushed a non-empty partial: that partial
FlushedAtEnd ==
    IF eos_partial # <<>> /\ PartialText(eos_partial[1]) # <<>>
    THEN <<eos_partial[1].v>>
    ELSE <<>>

-----------------------------------------------------------------------------
(* Delimiter mode *)

\* C1: in Delimiter mode, whatever the cut points, the messages yielded until
\* completion are exactly the non-empty segments of the byte stream split on
\* the separator, each once and in stream order.
C1_DelimiterYieldsAllSegments ==
    (stream_mode = "Delimiter" /\ CleanCompletion)
        => YieldedTexts = SelectSeq(Split(body, delimiter), IsNonEmpty)

\* the segments the claim C2 speaks of: the delivery split on the separator,
\* with the retained partial prefixed to the first segment
PrefixedSegments(partial, bytes, delim) ==
    LET segs == Split(bytes, delim)
    IN  <<PartialText(partial) \o Head(segs)>> \o Tail(segs)

\* C2: one delivery scanned by process_buff_string_delimited returns exactly
\* the non-empty ones among all but the last of its segments (the partial
\* prefixed to the first), and retains the last segment as the new partial.
C2_DeliverySplitsIntoSegments ==
    (stream_mode = "Delimiter" /\ last_scan.scanned)
        => LET segs == PrefixedSegments(last_scan.partial, last_scan.bytes, delimiter)
           IN  /\ last_scan.messages = SelectSeq(SubSeq(segs, 1, Len(segs) - 1), IsNonEmpty)
               /\ PartialText(last_scan.after) = segs[Len(segs)]

\* the first end-of-stream poll has happened
EndSeen == eos_partial # <<>>

\* C6: in Delimiter mode a non-empty partial retained at end-of-stream is
\* yielded as one final message, exactly once, and the stream then completes;
\* an absent or empty partial yields nothing more.
C6_DelimiterEndFlush ==
    (stream_mode = "Delimiter" /\ EndSeen)
        => /\ YieldedTexts = discovered \o FlushedAtEnd
           /\ Len(eos_partial) <= 2
           /\ Len(eos_partial) = 2 => ~eos_partial[2].some
           /\ ~bytes_stream => (~response_future /\ ~reqwest_builder)
           /\ (bytes_stream /\ pc = "idle") => (FlushedAtEnd # <<>> /\ ~partial_message.some)

\* C6 happens: a non-empty partial was flushed at end-of-stream as the last
\* message and the run completed
C6_Witness ==
    /\ stream_mode = "Delimiter"
    /\ completed
    /\ src_state = "ended"
    /\ FlushedAtEnd # <<>>
    /\ yielded # <<>>
    /\ yielded[Len(yielded)] = Msg(eos_partial[1].v)

-----------------------------------------------------------------------------
(* PrettyJsonArray mode *)

\* the elements and the layout of a well-formed body
ShapeOf(b) ==
    CHOOSE sh \in SeqsUpTo(Elements, MaxElems) \X BOOLEAN : ArrayText(sh[1], sh[2]) = b

\* C3: in PrettyJsonArray mode a well-formed array of objects yields, whatever
\* the cut points, "[", then each element once, in order and with its own
\* text, then "]".
C3_JsonArrayYieldsElements ==
    (stream_mode = "PrettyJsonArray" /\ body \in WellFormedBodies /\ CleanCompletion)
        => YieldedTexts = <<ArrayStart>> \o ShapeOf(body)[1] \o <<ArrayEnd>>

Separators == WhiteSpace \cup {","}

\* bytes = the messages in order, with separators skipped between them, then the partial
RECURSIVE Reconstructs(_, _, _)
Reconstructs(bytes, msgs, partial) ==
    IF msgs # <<>> /\ IsPrefix(Head(msgs), bytes)
    THEN Reconstructs(DropFirst(bytes, Len(Head(msgs))), Tail(msgs), partial)
    ELSE IF bytes # <<>> /\ Head(bytes) \in Separators
    THEN Reconstructs(Tail(bytes), msgs, partial)
    ELSE msgs = <<>> /\ bytes = partial

\* C4: in PrettyJsonArray mode, after any deliveries, the consumed spans (the
\* messages found and the separators skipped) followed by the retained
\* partial are the delivered bytes: an incomplete remainder is kept verbatim.
C4_JsonReconstruction ==
    (stream_mode = "PrettyJsonArray" /\ body \in WellFormedBodies /\ src_state = "open")
        => Reconstructs(SubSeq(body, 1, pos), discovered, PartialText(partial_message))

IsMarker(text) == text \in {ArrayStart, ArrayEnd}

IsObjectMsg(text) == ~IsMarker(text)

\* where the k-th element of a well-formed body ends
ElementEnd(es, pretty, k) ==
    Len(ArrayText(SubSeq(es, 1, k), pretty)) - (IF pretty THEN 2 ELSE 1)

\* how many elements of a well-formed body lie wholly in its first n bytes
CompleteElements(b, n) ==
    LET sh == ShapeOf(b)
    IN  Cardinality({k \in 1..Len(sh[1]) : ElementEnd(sh[1], sh[2], k) <= n})

\* C5: every message of PrettyJsonArray mode is "[", "]" or a complete JSON
\* value; an object spread over several deliveries yields nothing before the
\* delivery that completes it and exactly one message from then on.
C5_JsonOnlyCompleteValues ==
    stream_mode = "PrettyJsonArray"
        => /\ \A i \in 1..Len(yielded) :
                IsMsg(yielded[i]) => (IsMarker(yielded[i].text) \/ FromStrIsOk(yielded[i].text))
           /\ \A i \in 1..Len(remaining_messages) :
                IsMarker(remaining_messages[i]) \/ FromStrIsOk(remaining_messages[i])
           /\ body \in WellFormedBodies
                => Len(SelectSeq(discovered, IsObjectMsg)) = CompleteElements(body, pos)

\* C5 happens: an object that arrived in two deliveries has been yielded
C5_Witness ==
    /\ stream_mode = "PrettyJsonArray"
    /\ body \in WellFormedBodies
    /\ last_scan.scanned
    /\ last_scan.partial.some
    /\ last_scan.messages # <<>>
    /\ IsObjectMsg(Head(last_scan.messages))
    /\ yielded # <<>>
    /\ yielded[Len(yielded)] = Msg(Head(last_scan.messages))

\* the partial taken at the first end-of-stream poll can be no message
InvalidFinalPartial ==
    /\ EndSeen
    /\ eos_partial[1].some
    /\ Trim(eos_partial[1].v) # ArrayEnd
    /\ ~FromStrIsOk(eos_partial[1].v)

\* C7: in PrettyJsonArray mode a partial retained at end-of-stream that is
\* neither a complete JSON value nor "]" is dropped: no message and no error
\* is yielded for it, and the stream completes.
C7_JsonEndDropsInvalidPartial ==
    (stream_mode = "PrettyJsonArray" /\ InvalidFinalPartial)
        => /\ YieldedTexts \o remaining_messages = discovered
           /\ ErrorsYielded = (IF src_state = "failed" THEN 1 ELSE 0)
           /\ Len(eos_partial) = 1
           /\ ~bytes_stream /\ ~response_future /\ ~reqwest_builder
           /\ ~partial_message.some

\* C7 happens: an invalid partial was retained at end-of-stream and the run
\* completed without an error
C7_Witness ==
    /\ stream_mode = "PrettyJsonArray"
    /\ InvalidFinalPartial
    /\ src_state = "ended"
    /\ completed
    /\ ErrorsYielded = 0

-----------------------------------------------------------------------------
(* The queue of WebStream *)

\* a step that polls the byte source
PollsSource == pos' # pos \/ src_state' # src_state \/ eos_partial' # eos_partial

\* C8: the messages of one scan are yielded in discovery order on successive
\* polls, and the byte source is not polled while messages are queued.
C8_QueueDrainedInOrder ==
    /\ [](~EndSeen => YieldedTexts \o remaining_messages = discovered)
    /\ [][PollsSource => remaining_messages = <<>>]_vars

\* C8 happens: the three messages of one scan have all been yielded, in order
C8_Witness ==
    /\ last_scan.scanned
    /\ Len(last_scan.messages) >= 3
    /\ remaining_messages = <<>>
    /\ ~EndSeen
    /\ Len(YieldedTexts) >= 3
    /\ SubSeq(YieldedTexts, Len(YieldedTexts) - 2, Len(YieldedTexts))
         = SubSeq(last_scan.messages, Len(last_scan.messages) - 2, Len(last_scan.messages))

-----------------------------------------------------------------------------
(* GeminiStreamer: the terminal item *)

IsTerminal(item) == item.kind \in {"End", "Err"}

\* C9: a run of GeminiStreamer yields one End or one Err, never both nor two
\* errors, and nothing after it: the terminal item is the last item, and a
\* completed run has one.
C9_SingleTerminalItem ==
    /\ \A i \in 1..Len(g_yielded) : IsTerminal(g_yielded[i]) => i = Len(g_yielded)
    /\ g_completed => (g_yielded # <<>> /\ IsTerminal(g_yielded[Len(g_yielded)]))

IsDecodeError(item) == item.kind = "Err" /\ item.cause \in {"StreamParse", "StreamEventError"}

\* C10: a message that cannot be decoded is fatal: the error is yielded, the
\* streamer is done, and nothing of a later message is decoded or yielded.
C10_DecodeErrorIsFatal ==
    \A i \in 1..Len(g_yielded) :
        IsDecodeError(g_yielded[i]) => (i = Len(g_yielded) /\ done)

-----------------------------------------------------------------------------
(* GeminiStreamer: End, transport errors and Start *)

KindsYielded == [i \in 1..Len(g_yielded) |-> g_yielded[i].kind]

EndsYielded == {i \in 1..Len(g_yielded) : g_yielded[i].kind = "End"}

\* this step yields an End
YieldsEnd == Len(g_yielded') = Len(g_yielded) + 1 /\ g_yielded'[Len(g_yielded')].kind = "End"

\* this step is a call that returns completion at once and touches nothing
ReturnsCompletionOnly ==
    /\ g_completed'
    /\ UNCHANGED <<done, captured_data, pending_main_content, es_state, es_sent, es_last,
                   g_pc, g_yielded, decoded>>

\* C11: a graceful close (StreamEnded or the end of the source) yields an End
\* that carries the aggregates moved out of the streamer and moves it to
\* Ended; every later pull returns completion without polling the
\* EventSource, so there is at most one End and the aggregates leave once.
C11_GracefulCloseYieldsEnd ==
    /\ [](Cardinality(EndsYielded) <= 1)
    /\ [](es_last \in {"StreamEnded", "None"}
            => (done /\ g_yielded # <<>> /\ g_yielded[Len(g_yielded)].kind = "End"
                     /\ captured_data = NoCapture))
    /\ [][YieldsEnd => (/\ g_yielded'[Len(g_yielded')].end = captured_data
                        /\ es_last' \in {"StreamEnded", "None"})]_vars
    /\ [][EndsYielded # {} => ReturnsCompletionOnly]_vars

\* C11 happens: an End carrying captured content and usage was yielded, the
\* EventSource would connect again, and a later pull returned completion
C11_Witness ==
    /\ EndsYielded # {}
    /\ g_yielded[Len(g_yielded)].end.content.some
    /\ g_yielded[Len(g_yielded)].end.usage.some
    /\ es_state = "connecting"
    /\ g_completed

IsTransportError(item) == item.kind = "Err" /\ item.cause = "ReqwestEventSource"

\* C12: a transport error that is no graceful end is yielded as the terminal
\* item and ends the stream: no End in that run, nothing after the error, and
\* what was captured never reaches the caller.
C12_TransportErrorIsTerminal ==
    /\ es_last = "Error"
         => (g_yielded # <<>> /\ IsTransportError(g_yielded[Len(g_yielded)]))
    /\ \A i \in 1..Len(g_yielded) :
          IsTransportError(g_yielded[i])
             => (i = Len(g_yielded) /\ done /\ EndsYielded = {} /\ es_last = "Error")

\* C12 happens: content was captured, then the transport failed, and a later
\* pull returned completion
C12_Witness ==
    /\ g_yielded # <<>>
    /\ IsTransportError(g_yielded[Len(g_yielded)])
    /\ captured_data.content.some
    /\ captured_data.usage.some
    /\ g_completed

\* C13: Start is yielded at most once, and before every Chunk,
\* ReasoningChunk, ToolCall and End of the run.
C13_StartOnceAndFirst ==
    \A i \in 1..Len(g_yielded) :
        g_yielded[i].kind = "Start"
           => /\ \A j \in 1..Len(g_yielded) : j # i => g_yielded[j].kind # "Start"
              /\ \A j \in 1..(i - 1) :
                    g_yielded[j].kind \notin {"Chunk", "ReasoningChunk", "ToolCall", "End"}

\* C13 happens: Start, then events, then End, with an EventSource that would
\* open again if it were polled
C13_Witness ==
    /\ Len(g_yielded) >= 3
    /\ g_yielded[1].kind = "Start"
    /\ g_yielded[2].kind \in {"Chunk", "ReasoningChunk", "ToolCall"}
    /\ g_yielded[Len(g_yielded)].kind = "End"
    /\ es_state = "connecting"
    /\ g_completed

-----------------------------------------------------------------------------
(* GeminiStreamer: reasoning and main text, and what is captured of them *)

HasText(c) == c.tag = "Text"

\* the unit carries a reasoning text and a main text
BothTexts(unit) == HasText(unit.content) /\ HasText(unit.reasoning_content)

\* C14: for a unit with reasoning text R and main text M, ReasoningChunk(R) is
\* yielded by the pull that decodes it and Chunk(M) by the very next pull,
\* with no poll of the EventSource and no other event in between.
C14_DeferredMainText ==
    /\ []((decoded.some /\ BothTexts(decoded.unit))
            => /\ decoded.at \in 1..Len(g_yielded)
               /\ g_yielded[decoded.at] = ReasoningChunkEvent(decoded.unit.reasoning_content.text)
               /\ IF Len(g_yielded) = decoded.at
                  THEN pending_main_content = Some(decoded.unit.content.text)
                  ELSE g_yielded[decoded.at + 1] = ChunkEvent(decoded.unit.content.text))
    /\ [][pending_main_content.some
            => /\ g_yielded' = Append(g_yielded, ChunkEvent(pending_main_content.v))
               /\ pending_main_content' = None
               /\ UNCHANGED <<es_state, es_sent, es_last, decoded>>]_vars

\* C14 happens: the deferred Chunk followed its ReasoningChunk, and the stream
\* went on to its End
C14_Witness ==
    /\ decoded.some
    /\ BothTexts(decoded.unit)
    /\ Len(g_yielded) = decoded.at + 2
    /\ g_yielded[decoded.at].kind = "ReasoningChunk"
    /\ g_yielded[decoded.at + 1] = ChunkEvent(decoded.unit.content.text)
    /\ g_yielded[decoded.at + 2].kind = "End"

RECURSIVE Flatten(_)
Flatten(ss) == IF ss = <<>> THEN <<>> ELSE Head(ss) \o Flatten(Tail(ss))

IsChunk(item) == item.kind = "Chunk"

IsReasoningChunk(item) == item.kind = "ReasoningChunk"

\* the payloads of the Chunk events yielded so far, concatenated in order
ChunksYielded == Flatten(Texts(SelectSeq(g_yielded, IsChunk)))

\* the payloads of the ReasoningChunk events yielded so far, concatenated in order
ReasoningYielded == Flatten(Texts(SelectSeq(g_yielded, IsReasoningChunk)))

\* the aggregates the caller gets: those of End once it is yielded
Aggregates ==
    IF EndsYielded # {} THEN g_yielded[CHOOSE i \in EndsYielded : TRUE].end ELSE captured_data

\* C15: with capture_content, the content of End is the concatenation, in
\* order, of the payloads of all the Chunk events of the run, deferred ones
\* included: none is missing and none is counted twice.
C15_EndContentIsAllChunks ==
    options.capture_content
        => /\ PartialText(Aggregates.content) = ChunksYielded
           /\ Aggregates.content.some <=> SelectSeq(g_yielded, IsChunk) # <<>>

\* C15 happens: End carries the text of two chunks, one of them deferred
\* behind a ReasoningChunk
C15_Witness ==
    /\ options.capture_content
    /\ EndsYielded # {}
    /\ Len(SelectSeq(g_yielded, IsChunk)) = 2
    /\ Aggregates.content = Some(<<"a", "b">>)
    /\ \E i \in 1..(Len(g_yielded) - 1) : IsReasoningChunk(g_yielded[i]) /\ IsChunk(g_yielded[i + 1])

\* C16: with capture_reasoning_content, the reasoning content of End is the
\* concatenation, in order, of the payloads of all the ReasoningChunk events.
C16_EndReasoningIsAllReasoningChunks ==
    options.capture_reasoning_content
        => /\ PartialText(Aggregates.reasoning_content) = ReasoningYielded
           /\ Aggregates.reasoning_content.some <=> SelectSeq(g_yielded, IsReasoningChunk) # <<>>

\* C16 happens: End carries the text of two reasoning chunks
C16_Witness ==
    /\ options.capture_reasoning_content
    /\ EndsYielded # {}
    /\ Len(SelectSeq(g_yielded, IsReasoningChunk)) = 2
    /\ Aggregates.reasoning_content = Some(<<"r", "r">>)

-----------------------------------------------------------------------------
(* GeminiStreamer: what each kind of unit makes it do *)

IsSuffix(s, text) == Len(s) <= Len(text) /\ SubSeq(text, Len(text) - Len(s) + 1, Len(text)) = s

\* C17: every decoded unit with a reasoning text yields a ReasoningChunk with
\* that text and, with capture enabled, appends it to the reasoning aggregate,
\* whatever else the unit carries.
C17_ReasoningAlwaysYielded ==
    (decoded.some /\ HasText(decoded.unit.reasoning_content))
        => /\ decoded.at \in 1..Len(g_yielded)
           /\ g_yielded[decoded.at] = ReasoningChunkEvent(decoded.unit.reasoning_content.text)
           /\ options.capture_reasoning_content
                => /\ Aggregates.reasoning_content.some
                   /\ IsSuffix(decoded.unit.reasoning_content.text, Aggregates.reasoning_content.v)

\* C18: a unit whose content is a tool call yields ToolCall on the pull that
\* decodes it; the event carries the tool call only, and no text of the unit
\* is yielded with it or deferred behind it.
C18_ToolCallYieldedAlone ==
    (decoded.some /\ decoded.unit.content.tag = "ToolCall")
        => /\ decoded.at \in 1..Len(g_yielded)
           /\ g_yielded[decoded.at] = ToolCallEvent
           /\ ~pending_main_content.some
           /\ \A j \in (decoded.at + 1)..Len(g_yielded) :
                 g_yielded[j].kind \notin {"Chunk", "ReasoningChunk"}

\* C18 happens: a tool call was decoded and yielded, and the stream went on
\* to its End
C18_Witness ==
    /\ decoded.some
    /\ decoded.unit.content.tag = "ToolCall"
    /\ Len(g_yielded) = decoded.at + 1
    /\ g_yielded[decoded.at] = ToolCallEvent
    /\ g_yielded[decoded.at + 1].kind = "End"

\* the unit carries a usage snapshot and nothing else
UsageOnly(unit) == unit.content.tag = "None" /\ unit.reasoning_content.tag = "None"

\* this step polls the EventSource
PollsEventSource ==
    es_sent' # es_sent \/ es_state' # es_state \/ es_last' \in {"Pending", "StreamEnded", "None", "Error"}

\* this step ends a call that returns Poll::Pending
ReturnsPending == g_pc' = "idle" /\ g_yielded' = g_yielded /\ g_completed' = g_completed

\* C19: a unit that carries usage only updates the usage aggregate (when it
\* is captured) and yields no event; the same pull polls the EventSource
\* again, and a pull returns Pending only when the EventSource is pending.
C19_UsageOnlyUnitContinues ==
    /\ []((decoded.some /\ UsageOnly(decoded.unit))
            => /\ decoded.at = 0
               /\ options.capture_usage => Aggregates.usage = Some(decoded.unit.usage))
    /\ [][(decoded' # decoded /\ UsageOnly(decoded'.unit))
            => (g_yielded' = g_yielded /\ g_pc' = "loop")]_vars
    /\ [][g_pc = "loop" => PollsEventSource]_vars
    /\ [][ReturnsPending => es_last' = "Pending"]_vars

\* C19 happens: a usage-only unit was decoded, its snapshot replaced an
\* earlier one, and the same pull is about to poll the EventSource again
C19_Witness ==
    /\ decoded.some
    /\ UsageOnly(decoded.unit)
    /\ decoded.msg >= 2
    /\ g_pc = "loop"
    /\ options.capture_usage
    /\ captured_data.usage = Some(2)
    /\ Len(g_yielded) >= 2

\* C20: with capture_usage, the usage of End is the snapshot of the last unit
\* decoded before it, whatever the kind of that unit: a later snapshot
\* replaces the earlier one, and snapshots are never added.
C20_EndUsageIsLastSnapshot ==
    options.capture_usage
        => Aggregates.usage = (IF decoded.some THEN Some(decoded.unit.usage) ELSE None)

\* C20 happens: after at least two units, the last of them a tool call with
\* the smaller snapshot, End carries that snapshot
C20_Witness ==
    /\ options.capture_usage
    /\ EndsYielded # {}
    /\ Len(g_yielded) >= 4
    /\ decoded.some
    /\ decoded.msg = 3
    /\ decoded.unit.content.tag = "ToolCall"
    /\ decoded.unit.usage = 1
    /\ Aggregates.usage = Some(1)

-----------------------------------------------------------------------------
(* GeminiStreamer: the capture options *)

\* C21: a field of End (usage, content, reasoning content) is present only if
\* its capture option was enabled when the streamer was built, whatever units
\* were streamed; the options never change during the stream.
C21_EndFieldsOnlyIfRequested ==
    /\ [](/\ ~options.capture_usage => (~Aggregates.usage.some /\ ~captured_data.usage.some)
          /\ ~options.capture_content => (~Aggregates.content.some /\ ~captured_data.content.some)
          /\ ~options.capture_reasoning_content
               => (~Aggregates.reasoning_content.some /\ ~captured_data.reasoning_content.some))
    /\ [][options' = options]_vars

\* C21 happens: chunks and reasoning were streamed with only the usage
\* captured, and End carries the usage alone
C21_Witness ==
    /\ EndsYielded # {}
    /\ options = [capture_usage |-> TRUE, capture_content |-> FALSE,
                  capture_reasoning_content |-> FALSE]
    /\ SelectSeq(g_yielded, IsChunk) # <<>>
    /\ SelectSeq(g_yielded, IsReasoningChunk) # <<>>
    /\ Aggregates.usage.some
    /\ ~Aggregates.content.some
    /\ ~Aggregates.reasoning_content.some

-----------------------------------------------------------------------------
(* WebStream: transport errors *)

\* C25: a transport error of the byte source (or of the request) is the
\* terminal outcome of the WebStream: nothing is yielded after it, and the
\* later pulls return completion.
C25_BytesErrorIsTerminal ==
    \A i \in 1..Len(yielded) : IsErr(yielded[i]) => i = Len(yielded)

-----------------------------------------------------------------------------
(* WebStream: bytes that are no UTF-8 *)

IsUtf8Err(item) == item = Utf8Err

\* C23: a delivery that is no valid UTF-8 makes the WebStream yield the
\* decoding error, and the failure is fatal: no message is yielded after it
\* and no further delivery is read.
C23_InvalidUtf8IsFatal ==
    \A i \in 1..Len(yielded) : IsUtf8Err(yielded[i]) => i = Len(yielded)

\* C24: a delivery boundary inside a multi-byte character of a valid stream
\* does not change the outcome: the messages are those of a single delivery,
\* and no error is yielded.
C24_SplitCharacterIsHarmless ==
    IsUtf8(body) => SelectSeq(yielded, IsUtf8Err) = <<>>

-----------------------------------------------------------------------------
(* LlamaCppStreamer: what End carries, abandoned streams, terminal items *)

LlamaEnds == {i \in 1..Len(l_yielded) : l_yielded[i].kind = "End"}

LlamaTerminals == {i \in 1..Len(l_yielded) : l_yielded[i].kind \in {"End", "Err"}}

\* C22: the content of the End of a LlamaCppStreamer is populated only if the
\* capture of the content was requested for the stream.
C22_LlamaEndContentOnlyIfRequested ==
    \A i \in LlamaEnds : l_yielded[i].end.content.some => capture_requested

\* C27: once the consumer has dropped a LlamaCpp stream, the task generates at
\* most the token whose send fails, nothing more enters the channel, and the
\* task terminates, whether it was generating or waiting on a full channel.
C27_AbandonedStreamStopsTask ==
    /\ [](wasted <= 1)
    /\ [][rx_dropped => receiver' = receiver]_vars
    /\ (rx_dropped ~> (task = "terminated" /\ tx_dropped))

\* C27 happens: the task waited on a full channel with a token in hand, the
\* consumer dropped the stream before any End, and the task has terminated
C27_Witness ==
    /\ rx_dropped
    /\ LlamaTerminals = {}
    /\ Len(receiver) = MaxChannel
    /\ tokens = MaxChannel + 1
    /\ task = "terminated"

\* C28: a LlamaCppStreamer that has returned completion has yielded exactly
\* one terminal item before it, End or an error, however the channel ended.
C28_LlamaCompletionAfterOneTerminal ==
    l_completed => Cardinality(LlamaTerminals) = 1

-----------------------------------------------------------------------------
(* ModelManager: the cache and the singleton *)

\* C29: while the cache is not cleared, load_model loads each path from disk
\* at most once and every call for the path returns the same LoadedModel,
\* concurrent calls included.
C29_EachPathLoadedOnce ==
    \A p \in Paths : disk_loads[p] <= 1 /\ Cardinality(returned_models[p]) <= 1

\* an initializer has returned an Err in this step
InitFailed == \E c \in Callers : caller[c].pc = "init" /\ caller'[c].pc = "idle"

\* C30: every successful instance() returns the same ModelManager, the backend
\* is initialized successfully at most once, and a failed initialization leaves
\* the cell unset and its permit free for a later call.
C30_ManagerIsSingleton ==
    /\ [](backend_inits <= 1)
    /\ [](Cardinality(returned_managers) <= 1)
    /\ [](returned_managers \subseteq {MODEL_MANAGER})
    /\ [][InitFailed => (MODEL_MANAGER' = 0 /\ init_permit' = 0)]_vars

\* C30 happens: the initializer of one caller has failed (the caller is back
\* without a ModelManager), the initializer of a later call has succeeded, and
\* instance() has returned the one ModelManager
C30_Witness ==
    /\ backend_inits = 1
    /\ returned_managers = {MODEL_MANAGER}
    /\ \E c \in Callers : caller[c].pc = "idle" /\ caller[c].calls >= 1
    /\ \E c \in Callers : caller[c].pc = "have" /\ caller[c].calls >= 2

-----------------------------------------------------------------------------
(* Two streams at the same time *)

\* the call of a WebStream driven alone
WebCall(s, c) ==
    CASE c.ev = "queued" -> WebQueued(s)
      [] c.ev = "start" -> WebStart(s)
      [] c.ev = "bytes" -> WebBytes(s, c.n)
      [] OTHER -> WebEnd(s)

\* the call of a GeminiStreamer driven alone
StreamerCall(s, c) ==
    CASE c.ev = "done" -> StreamerDone(s)
      [] c.ev = "pending" -> StreamerPending(s)
      [] c.ev = "open" -> StreamerOpen(s)
      [] c.ev = "message" -> StreamerMessage(s, c.m)
      [] c.ev = "ended" -> StreamerEnd(s)
      [] OTHER -> StreamerError(s)

RECURSIVE WebAlone(_, _)
\* the WebStream after the calls of `log`, with no other stream around
WebAlone(s, log) ==
    IF log = <<>> THEN s
    ELSE CHOOSE after \in {WebCall(before, log[Len(log)]) :
                              before \in {WebAlone(s, SubSeq(log, 1, Len(log) - 1))}} : TRUE

RECURSIVE StreamerAlone(_, _)
\* the GeminiStreamer after the calls of `log`, with no other streamer around
StreamerAlone(s, log) ==
    IF log = <<>> THEN s
    ELSE CHOOSE after \in {StreamerCall(before, log[Len(log)]) :
                              before \in {StreamerAlone(s, SubSeq(log, 1, Len(log) - 1))}} : TRUE

\* each stream is what it would be alone on the same calls and deliveries: the
\* items yielded, the partial, the queue, the deferred text and the aggregates
SameAsAlone ==
    /\ \A i \in Instances :
          streams[i] = WebAlone(WebStreamNew(streams[i].stream_mode, streams[i].delimiter,
                                             streams[i].body), streams[i].log)
    /\ \A i \in Instances :
          streamers[i] = StreamerAlone(GeminiStreamerNew(streamers[i].options), streamers[i].log)

\* a call on one stream leaves the other stream as it was
OthersUntouched ==
    \A i \in Instances :
        (streams'[i] # streams[i] \/ streamers'[i] # streamers[i])
            => \A j \in Instances \ {i} : streams'[j] = streams[j] /\ streamers'[j] = streamers[j]

WebMidRun(s) ==
    /\ s.bytes_stream
    /\ s.pos < Len(s.body)
    /\ s.partial_message.some /\ s.partial_message.v # <<>>
    /\ s.yielded # <<>>

-----------------------------------------------------------------------------
(* WebStream: the markers of the array, the byte source, the request *)

IsArrayStart(item) == item = Msg(ArrayStart)

\* C31: over the lifetime of a WebStream in PrettyJsonArray mode the marker
\* "[" is yielded at most once, whatever the body and its cuts.
C31_ArrayStartYieldedOnce ==
    stream_mode = "PrettyJsonArray" => Len(SelectSeq(yielded, IsArrayStart)) <= 1

-----------------------------------------------------------------------------
(* LlamaCppStreamer and its task: the text of End, the chunks of the channel *)

IsDelta(chunk) == chunk.tag = "Delta"

\* the texts of the Deltas put into the channel, concatenated in order
DeltasSent == Flatten(Texts(SelectSeq(sent, IsDelta)))

\* the payloads of the Chunk events yielded before the item i, concatenated
LlamaChunksBefore(i) == Flatten(Texts(SelectSeq(SubSeq(l_yielded, 1, i - 1), IsChunk)))

IsTerminalChunk(chunk) == chunk.tag \in {"Done", "Error"}

\* the tag of the chunk that a task at this position sends
TagSentAt(position) ==
    CASE position = "sending" -> "Delta"
      [] position = "send_done" -> "Done"
      [] OTHER -> "Error"

\* C33: the generation task sends zero or more Deltas and then exactly one
\* terminal chunk, Done after a generation that succeeded or Error after one
\* that failed, never both, and no Delta after the terminal chunk.
C33_TaskSendsOneTerminalChunk ==
    /\ [](\A i \in 1..Len(sent) : IsTerminalChunk(sent[i]) => i = Len(sent))
    /\ []((task = "terminated" /\ ~rx_dropped)
            => (sent # <<>> /\ IsTerminalChunk(sent[Len(sent)])))
    /\ [][sent' # sent => (/\ Len(sent') = Len(sent) + 1
                           /\ sent'[Len(sent')].tag = TagSentAt(task))]_vars

\* C34: once the byte source has reported its end, the WebStream does not poll
\* it again: the source reports its end to the stream at most once.
C34_EndedSourceNotPolledAgain == Len(eos_partial) <= 1

\* the request was sent and its future has answered with an error: there is
\* neither builder nor future, and no byte stream was ever set
SendFailed ==
    /\ ~reqwest_builder
    /\ ~response_future
    /\ ~bytes_stream
    /\ eos_partial = <<>>

\* a request is issued in this step
RequestIssued == response_future' /\ ~response_future

\* C35: a WebStream issues its request at most once, in a pull and before
\* anything else has happened; a request that fails gives exactly one error
\* and then completion; after a completion every pull returns completion, with
\* no message, no error and no new request.
C35_OneRequestThenCompletionForGood ==
    /\ [](reqwest_builder => (~response_future /\ ~bytes_stream /\ yielded = <<>>))
    /\ [][RequestIssued => (reqwest_builder /\ ~reqwest_builder')]_vars
    /\ [][~reqwest_builder => ~reqwest_builder']_vars
    /\ [](SendFailed => yielded = <<Err>>)
    /\ [][SendFailed => (completed' /\ yielded' = yielded)]_vars
    /\ [][completed => (completed' /\ yielded' = yielded /\ ~RequestIssued
                        /\ ~response_future' /\ ~bytes_stream')]_vars

\* C35 happens: the request has failed, its error was yielded alone, and the
\* pulls after it have returned completion
C35_Witness ==
    /\ SendFailed
    /\ yielded = <<Err>>
    /\ completed

\* a call returns Poll::Pending in this step: it ends with no item and no
\* completion
ReturnsPendingNow == pc' = "idle" /\ yielded' = yielded /\ ~completed'

\* C36: when the byte source delivers finitely many chunks and ends, repeated
\* pulls lead to completion after finitely many messages, and a call returns
\* Pending only when the request or the source was pending: such a call has
\* read nothing and changed nothing.
C36_PullsReachCompletion ==
    /\ <>completed
    /\ [][ReturnsPendingNow
            => UNCHANGED <<reqwest_builder, response_future, bytes_stream, partial_message,
                           remaining_messages, pos, deliveries, src_state, eos_partial>>]_vars

\* C36 happens: a delivery produced no message, the loop went on, messages were
\* yielded and the stream has completed
C36_Witness ==
    /\ completed
    /\ deliveries >= 2
    /\ Len(discovered) < deliveries
    /\ yielded # <<>>
    /\ src_state = "ended"

-----------------------------------------------------------------------------
(* WebStream: the partial message of PrettyJsonArray mode *)

\* the text is the start of an object that is not complete
IsIncompleteObject(text) == text # <<>> /\ Head(text) = "{" /\ ~FromStrIsOk(text)

\* C37: in PrettyJsonArray mode a partial message that is retained is not
\* empty, starts with "{" and is no complete JSON value; so the end-of-stream
\* branch never yields a final partial, and every message yielded comes from
\* the scan of a delivery.
C37_JsonPartialIsIncompleteObject ==
    stream_mode = "PrettyJsonArray"
        => /\ partial_message.some => IsIncompleteObject(partial_message.v)
           /\ \A i \in 1..Len(eos_partial) :
                 /\ eos_partial[i].some => IsIncompleteObject(eos_partial[i].v)
                 /\ ~EmitFinalPartial(stream_mode, eos_partial[i])
           /\ YieldedTexts \o remaining_messages = discovered

\* C37 happens: a partial was retained from one delivery to the next, the scan
\* of the last delivery left a partial again, and the end of the byte source
\* took it without yielding it
C37_Witness ==
    /\ stream_mode = "PrettyJsonArray"
    /\ last_scan.scanned
    /\ last_scan.partial.some
    /\ last_scan.after.some
    /\ eos_partial # <<>>
    /\ eos_partial[1] = last_scan.after
    /\ YieldedTexts # <<>>
    /\ completed

====
